---- MODULE Spec2Model ----
(***************************************************************************)
(* Model of the netplay signaling server (room / invite / connection       *)
(* registries and the message handlers of the WebSocket dispatcher) and of *)
(* the client-side lockstep engines (NES GameView, SNES SnesGameView).     *)
(*                                                                         *)
(* Spec        the signaling server with two clients: one action per       *)
(*             message handler plus the socket close handler.              *)
(* SpecCrowd   the server with three clients and the requests that decide  *)
(*             who is in a room, who watches it and whether it streams.    *)
(* SpecInvite  the server with two clients and the requests that make and  *)
(*             answer invites.                                             *)
(* SpecLocked  the server with three clients and the requests that let     *)
(*             players into a room or keep them out.                       *)
(* SpecStream  the server with three clients and the requests that fill a  *)
(*             room, lock it and make it stream.                           *)
(* SpecRooms   the server with three clients, two rooms and the requests    *)
(*             that put users into rooms.                                  *)
(* SpecHost    the server with two clients and the requests that only a    *)
(*             room's host may make.                                       *)
(* SpecNetplay the server with two clients and the requests that start a   *)
(*             session in a room.                                          *)
(* SpecChat    the server with one client and the requests that fill and   *)
(*             read a room's chat log.                                     *)
(* SpecReauth  the server with two clients that authenticate as any user,  *)
(*             and again as another one.                                   *)
(* SpecFriends the server with three clients and the requests that make    *)
(*             friends.                                                    *)
(* SpecRelay   the server with three clients, a room with a session and the*)
(*             four relayed requests.                                      *)
(* SpecRequests the server with two clients and requests of every kind of  *)
(*             answer.                                                     *)
(* SpecRaw     the server with two clients and text frames that are no     *)
(*             well-formed request.                                        *)
(* SpecUpdate  the server with two clients and the requests that change what*)
(*             a room's members see of it.                                 *)
(* SpecPresence the server with three sockets that authenticate as any user,*)
(*             close and make friends.                                     *)
(* SpecPorts   the server with two clients and their Apps' sessions: the   *)
(*             host starts a lockstep session, the room changes hands, the *)
(*             peers leave the game and join again.                        *)
(* SpecClient  one signaling client (SocialClient or SignalClient): its    *)
(*             requests, their responses and timeouts, close and reconnect;*)
(*             SpecClientFair adds that every timer fires.                 *)
(* SpecNes     two NES GameView lockstep engines and the netplay:input     *)
(*             relay between them; the engines are set up, torn down and   *)
(*             set up again; the host plays.                               *)
(* SpecNesRun  the same engines, set up once; both peers play.             *)
(* SpecSnes    one SNES SnesGameView lockstep engine and its peer's        *)
(*             input stream.                                               *)
(* SpecGate    the server with two clients that authenticate with payloads *)
(*             of every kind, or do not, and make requests.                *)
(* SpecStart   the start of a lockstep session: each peer's engine is set  *)
(*             up once, at its own time, and inputs are relayed meanwhile. *)
(* SpecPrune   the host's engine in a session of more than 240 frames,     *)
(*             played against the inputs of its peer.                      *)
(***************************************************************************)
EXTENDS Integers, Sequences, FiniteSets, TLC

None == "none"

\* ------------------------------------------------------------------------
\* Input domains
\* ------------------------------------------------------------------------

\* User ids found in the persisted user directory.
Users == {"u1", "u2", "u3"}

\* WebSocket objects; a closed socket that nothing references any more is
\* indistinguishable from a fresh one, so the slot is reused.
ConnOrder == <<"c1", "c2", "c3">>

Conns == {ConnOrder[i] : i \in 1..Len(ConnOrder)}

\* The userId each client sends in its auth payload (SocialClient.connect
\* always sends its own profile).
ProfileOf(c) == CASE c = "c1" -> "u1" [] c = "c2" -> "u2" [] OTHER -> "u3"

\* msg.requestId of the requests a client sends through SocialClient.request:
\* a crypto.randomUUID() of its own.
RequestIdOf(c) == CASE c = "c1" -> "q1" [] c = "c2" -> "q2" [] OTHER -> "q3"

\* The users in the order of the users array (users.json, then users.push).
UserOrder == <<"u1", "u2", "u3">>

\* The friendCode of each user's profile.
FriendCodeOf(userId) ==
    CASE userId = "u1" -> "AAA" [] userId = "u2" -> "BBB" [] OTHER -> "CCC"

\* payload.friendCode of auth where the profile's code is whatever
\* randomFriendCode drew for it.
AuthCodeInputs == {"aaa", "BBB", "CCC"}

\* payload.friendCode of friends:add.
FriendCodeInputs == {"", "aaa", "BBB", "CCC", "ZZZ"}

\* Room codes in the order uuidv4().slice(0, 8) hands them out; every code is
\* fresh, so each is used for one room:create only.
RoomCodes == <<"R1", "R2">>

\* roomId values a request may carry where one room is looked at: a code names
\* no room before it is handed out and after its room is gone.
RoomIdInputs == {RoomCodes[1]}

\* roomId values a request may carry where two rooms are looked at.
AllRoomIds == {RoomCodes[i] : i \in 1..Len(RoomCodes)}

\* Number of invite ids (uuidv4 values) the model hands out.
MaxInvites == 1

InviteIds == 1..MaxInvites

GameIdInputs == {"", "smb"}

\* Number of chat messages the model lets a room take.
MaxChat == 203

\* payload.text of room:chat:send: none, blanks, a message.
ChatTextInputs == {"", " ", "hi"}

VARIABLES
    users,            \* user directory: userId -> [friends: Seq(userId)]
    socketUser,       \* ws -> userId (None when unbound)
    socketsByUserId,  \* userId -> set of ws
    closedSockets,    \* sockets whose readyState is no longer OPEN but that a
                      \* set in socketsByUserId still holds; every socket
                      \* once the server process has ended
    rooms,            \* roomId -> RoomRecord, for the rooms that exist
    roomsCreated,     \* number of room codes handed out
    invites,          \* inviteId -> InviteRecord, for the invites that exist
    invitesCreated,   \* number of invite ids handed out
    response,         \* the response the last handler sent (None: no response)
    sent              \* the events the last handler sent, in order

serverVars == <<users, socketUser, socketsByUserId, closedSockets, rooms,
                roomsCreated, invites, invitesCreated, response, sent>>

\* The client side: the lockstep engines and the inputs under way.
VARIABLES
    nes,    \* userId -> the NES GameView effect's closure at that peer
    net,    \* userId -> the netplay:input messages that peer sent and the
            \* server has not handled yet, in order
    snes,   \* the SNES SnesGameView effect's closure at one peer
    client, \* one signaling client (SocialClient or SignalClient): its
            \* socket, pending map and timers, and the responses under way
    activeSession
            \* userId -> the netplay part of the App's activeSession state
            \* in a lockstep session (NoNetplay: no session is shown)

\* The state of the clients.
lockstepVars == <<nes, net, snes, client, activeSession>>

\* ------------------------------------------------------------------------
\* Helpers on arrays
\* ------------------------------------------------------------------------

Includes(arr, x) == \E i \in 1..Len(arr) : arr[i] = x

Without(arr, x) == SelectSeq(arr, LAMBDA id : id /= x)

Push(arr, x) == Append(arr, x)

FlatMap(arr, Op(_)) ==
    LET f[i \in 0..Len(arr)] == IF i = 0 THEN <<>> ELSE f[i - 1] \o Op(arr[i])
    IN  f[Len(arr)]

Elems(arr) == {arr[i] : i \in 1..Len(arr)}

\* String(x || "").trim(), for the strings the model sends.
Trim(str) == IF str = " " THEN "" ELSE str

\* str.toUpperCase(), for the strings the model sends.
Upper(str) == CASE str = "aaa" -> "AAA" [] str = "bbb" -> "BBB" [] OTHER -> str

\* x || fallback
OrElse(str, fallback) == IF str = "" THEN fallback ELSE str

\* ------------------------------------------------------------------------
\* The registries as one value, so that a handler can compute what it sends
\* from the registries as they are at that point of the handler.
\* ------------------------------------------------------------------------

World(usrs, socks, closed, rms) ==
    [users |-> usrs, socks |-> socks, closed |-> closed, rooms |-> rms]

Now == World(users, socketsByUserId, closedSockets, rooms)

WithRooms(w, rms) == [w EXCEPT !.rooms = rms]

getUserById(w, userId) == IF userId \in DOMAIN w.users THEN w.users[userId] ELSE None

\* users.find over the friend codes: the first user in array order.
getUserByCode(w, friendCode) ==
    LET hit == SelectSeq(UserOrder,
                         LAMBDA u : u \in DOMAIN w.users
                                    /\ Upper(w.users[u].friendCode) = Upper(friendCode))
    IN  IF hit = <<>> THEN None ELSE hit[1]

areFriends(w, userId, otherUserId) ==
    /\ userId \in DOMAIN w.users
    /\ Includes(w.users[userId].friends, otherUserId)

\* An isOnline that takes every user for online.
isOnlineAlways(w, userId) == TRUE

isOnline(w, userId) == userId \in DOMAIN w.socks /\ w.socks[userId] /= {}

\* send(): only a socket whose readyState is OPEN gets the message.
IsOpen(w, ws) == ws \notin w.closed

Event(userId, ws, ev, roomId, who) ==
    [to |-> userId, ws |-> ws, ev |-> ev, room |-> roomId, who |-> who, data |-> None]

\* The events evs with `data` in their payload.
WithData(evs, data) == [i \in 1..Len(evs) |-> [evs[i] EXCEPT !.data = data]]

sendEventToUser(w, userId, ev, roomId, who) ==
    IF userId \notin DOMAIN w.socks THEN <<>>
    ELSE LET set == SelectSeq(ConnOrder, LAMBDA c : c \in w.socks[userId] /\ IsOpen(w, c))
         IN  [i \in 1..Len(set) |-> Event(userId, set[i], ev, roomId, who)]

\* A sendEventToRoom that leaves nobody out.
sendEventToRoomAll(w, roomId, ev, who, excludeUserId) ==
    FlatMap(w.rooms[roomId].members, LAMBDA m : sendEventToUser(w, m, ev, roomId, who))

sendEventToRoom(w, roomId, ev, who, excludeUserId) ==
    FlatMap(SelectSeq(w.rooms[roomId].members, LAMBDA m : m /= excludeUserId),
            LAMBDA m : sendEventToUser(w, m, ev, roomId, who))

findRoomByUser(w, userId) ==
    LET hit == SelectSeq(RoomCodes, LAMBDA r : r \in DOMAIN w.rooms
                                               /\ Includes(w.rooms[r].members, userId))
    IN  IF hit = <<>> THEN None ELSE hit[1]

\* The friends:list payload: the friends of userId that the directory knows,
\* each with its online flag and room.
friendsPayload(w, userId) ==
    IF userId \notin DOMAIN w.users THEN <<>>
    ELSE LET friends == SelectSeq(w.users[userId].friends,
                                  LAMBDA friendId : friendId \in DOMAIN w.users)
         IN  [i \in 1..Len(friends) |->
                 [userId |-> friends[i], online |-> isOnline(w, friends[i]),
                  roomId |-> findRoomByUser(w, friends[i])]]

\* sendEventToUser(userId, "friends:list", list)
sendFriendsList(w, userId, list) ==
    WithData(sendEventToUser(w, userId, "friends:list", None, userId), list)

\* The presence:update events carry online: isOnline(userId) in `data`.
broadcastPresence(w, userId) ==
    IF userId \notin DOMAIN w.users THEN <<>>
    ELSE FlatMap(w.users[userId].friends,
                 LAMBDA friendId :
                     WithData(sendEventToUser(w, friendId, "presence:update",
                                              findRoomByUser(w, userId), userId),
                              isOnline(w, userId)))

roomStatePayload(roomId, room) ==
    [roomId |-> roomId, gameId |-> room.gameId, hostUserId |-> room.hostUserId,
     members |-> room.members, spectators |-> room.spectators,
     locked |-> room.locked, readyByUserId |-> room.readyByUserId]

\* An emitRoomUpdate that tells the host only.
emitRoomUpdateToHost(w, roomId) ==
    WithData(sendEventToUser(w, w.rooms[roomId].hostUserId, "room:update", roomId, None),
             roomStatePayload(roomId, w.rooms[roomId]))
        \o FlatMap(w.rooms[roomId].members, LAMBDA m : broadcastPresence(w, m))

emitRoomUpdate(w, roomId) ==
    WithData(sendEventToRoom(w, roomId, "room:update", None, None),
             roomStatePayload(roomId, w.rooms[roomId]))
        \o FlatMap(w.rooms[roomId].members, LAMBDA m : broadcastPresence(w, m))

Drop(f, k) == [x \in DOMAIN f \ {k} |-> f[x]]

Put(f, k, v) == [x \in DOMAIN f \cup {k} |-> IF x = k THEN v ELSE f[x]]

\* ------------------------------------------------------------------------
\* Records
\* ------------------------------------------------------------------------

NoSession ==
    [mode |-> "none", gameId |-> "", romBase64 |-> "", protocolVersion |-> "",
     coreVersion |-> ""]

NewRoom(actorId, gameId) ==
    [hostUserId |-> actorId, gameId |-> gameId, members |-> <<actorId>>,
     spectators |-> {}, locked |-> FALSE, readyByUserId |-> {},
     chat |-> <<>>, session |-> NoSession]

NoPayload == [kind |-> "none"]

\* The message sendResponse sends, and the socket it sends it on.
sendResponse(ws, requestId, ok, payload, error) ==
    [ws |-> ws, requestId |-> requestId, ok |-> ok, error |-> error, payload |-> payload]

NoResponse == sendResponse(None, None, FALSE, NoPayload, "")

\* sendResponse(ws, msg.requestId, true, payload)
Reply(ws, payload) ==
    response' = sendResponse(ws, RequestIdOf(ws), TRUE, payload, "")

registries == <<users, socketUser, socketsByUserId, closedSockets, rooms,
                roomsCreated, invites, invitesCreated>>

\* A refusal that also sends the requester its friends list, as auth does.
FailWithEvent(ws, error) ==
    /\ response' = sendResponse(ws, RequestIdOf(ws), FALSE, NoPayload, error)
    /\ sent' = IF socketUser[ws] = None THEN <<>>
               ELSE sendEventToUser(Now, socketUser[ws], "friends:list", None,
                                    socketUser[ws])
    /\ UNCHANGED registries

\* sendResponse(ws, msg.requestId, false, undefined, error); return
Fail(ws, error) ==
    /\ response' = sendResponse(ws, RequestIdOf(ws), FALSE, NoPayload, error)
    /\ sent' = <<>>
    /\ UNCHANGED registries

\* ------------------------------------------------------------------------
\* auth, socket close
\* ------------------------------------------------------------------------

setSocketUser(socks, ws, userId) == [socks EXCEPT ![userId] = @ \cup {ws}]

Auth(ws, userId, friendCode) ==
    /\ ws \notin closedSockets
    /\ IF userId = "" \/ Trim(friendCode) = ""
       THEN Fail(ws, "Invalid auth payload")
       ELSE LET code  == Upper(Trim(friendCode))
                usrs  == IF userId \in DOMAIN users
                         THEN [users EXCEPT ![userId].friendCode = code]
                         ELSE Put(users, userId, [friends |-> <<>>, friendCode |-> code])
                socks == setSocketUser(socketsByUserId, ws, userId)
                w     == World(usrs, socks, closedSockets, rooms)
            IN  /\ users' = usrs
                /\ socketUser' = [socketUser EXCEPT ![ws] = userId]
                /\ socketsByUserId' = socks
                /\ Reply(ws, [userId |-> userId])
                /\ sent' = sendFriendsList(w, userId, friendsPayload(w, userId))
                               \o broadcastPresence(w, userId)
                /\ UNCHANGED <<closedSockets, rooms, roomsCreated, invites, invitesCreated>>

\* An auth that takes a payload without a displayName.
AuthRequestAnyName(ws, userId, displayName, friendCode) ==
    /\ ws \notin closedSockets
    /\ Auth(ws, Trim(userId), friendCode)

\* The auth handler with the payload's userId, displayName and friendCode,
\* each trimmed: if (!userId || !displayName || !friendCode).
AuthRequest(ws, userId, displayName, friendCode) ==
    /\ ws \notin closedSockets
    /\ IF Trim(displayName) = "" THEN Fail(ws, "Invalid auth payload")
       ELSE Auth(ws, Trim(userId), friendCode)

\* ------------------------------------------------------------------------
\* Friends
\* ------------------------------------------------------------------------

\* if (!user.friends.includes(otherId)) user.friends.push(otherId)
AddFriend(usrs, userId, otherId) ==
    IF Includes(usrs[userId].friends, otherId) THEN usrs
    ELSE [usrs EXCEPT ![userId].friends = Push(@, otherId)]

FriendsAdd(ws, friendCode) ==
    /\ ws \notin closedSockets
    /\ socketUser[ws] /= None
    /\ LET actorId  == socketUser[ws]
           friendId == getUserByCode(Now, Trim(friendCode))
       IN  IF actorId \notin DOMAIN users \/ friendId = None
           THEN Fail(ws, "Friend code not found")
           ELSE IF friendId = actorId THEN Fail(ws, "Cannot add yourself")
           ELSE LET usrs == AddFriend(AddFriend(users, actorId, friendId),
                                      friendId, actorId)
                    w    == World(usrs, socketsByUserId, closedSockets, rooms)
                IN  /\ users' = usrs
                    /\ Reply(ws, [friends |-> friendsPayload(w, actorId)])
                    /\ sent' = sendFriendsList(w, actorId, friendsPayload(w, actorId))
                                   \o sendFriendsList(w, friendId,
                                                      friendsPayload(w, friendId))
                    /\ UNCHANGED <<socketUser, socketsByUserId, closedSockets, rooms,
                                   roomsCreated, invites, invitesCreated>>

FriendsList(ws) ==
    /\ ws \notin closedSockets
    /\ socketUser[ws] /= None
    /\ LET actorId == socketUser[ws]
           list    == friendsPayload(Now, actorId)
       IN  /\ Reply(ws, [friends |-> list])
           /\ sent' = sendFriendsList(Now, actorId, list)
           /\ UNCHANGED registries

\* removeUserFromRooms without the host failover: the host is left as it was.
HostAfterLeaveStale(room, userId) == room.hostUserId

\* The host that removeUserFromRooms leaves a room with, `room` being the
\* room after userId was filtered out of its members.
HostAfterLeave(room, userId) ==
    IF room.hostUserId = userId THEN room.members[1] ELSE room.hostUserId

\* removeUserFromRooms that leaves the spectators as they were.
LeaveRoomAsSpectator(room, userId) ==
    LET members == Without(room.members, userId)
    IN  [room EXCEPT !.members = members,
                     !.readyByUserId = {id \in @ : Includes(members, id)}]

\* One room of removeUserFromRooms' loop: the room after userId left it.
LeaveRoom(room, userId) ==
    LET members == Without(room.members, userId)
    IN  [room EXCEPT !.members = members,
                     !.spectators = @ \ {userId},
                     !.readyByUserId = {id \in @ : Includes(members, id)}]

\* removeUserFromRooms: the loop over rooms.values(), from the i-th room on;
\* `acc` holds the registries and the events sent so far.
RECURSIVE removeUserFromRoomsFrom(_, _, _)
removeUserFromRoomsFrom(acc, userId, i) ==
    IF i > Len(RoomCodes) THEN acc
    ELSE LET roomId == RoomCodes[i] IN
         IF roomId \notin DOMAIN acc.w.rooms
            \/ ~Includes(acc.w.rooms[roomId].members, userId)
         THEN removeUserFromRoomsFrom(acc, userId, i + 1)
         ELSE LET left == LeaveRoom(acc.w.rooms[roomId], userId) IN
              IF Len(left.members) = 0
              THEN removeUserFromRoomsFrom(
                       [acc EXCEPT !.w = WithRooms(acc.w, Drop(acc.w.rooms, roomId))],
                       userId, i + 1)
              ELSE LET room == [left EXCEPT !.hostUserId = HostAfterLeave(left, userId)]
                       w    == WithRooms(acc.w, Put(acc.w.rooms, roomId, room))
                   IN  removeUserFromRoomsFrom(
                           [w |-> w, sent |-> acc.sent \o emitRoomUpdate(w, roomId)],
                           userId, i + 1)

removeUserFromRooms(w, userId) ==
    removeUserFromRoomsFrom([w |-> w, sent |-> <<>>], userId, 1)

dropSocketUser(socks, ws, userId) == [socks EXCEPT ![userId] = @ \ {ws}]

\* ws.on("close")
ConnClose(ws) ==
    /\ ws \notin closedSockets
    /\ response' = NoResponse
    /\ LET userId == socketUser[ws] IN
       IF userId = None
       THEN /\ sent' = <<>>
            /\ UNCHANGED registries
       ELSE LET socks  == dropSocketUser(socketsByUserId, ws, userId)
                closed == IF \E u \in DOMAIN socks : ws \in socks[u]
                          THEN closedSockets \cup {ws} ELSE closedSockets
                out    == removeUserFromRooms(World(users, socks, closed, rooms), userId)
            IN  /\ socketUser' = [socketUser EXCEPT ![ws] = None]
                /\ socketsByUserId' = socks
                /\ closedSockets' = closed
                /\ rooms' = out.w.rooms
                /\ sent' = out.sent \o broadcastPresence(out.w, userId)
                /\ UNCHANGED <<users, roomsCreated, invites, invitesCreated>>

\* ------------------------------------------------------------------------
\* Room handlers.  Each action is one `if (msg.type === ...)` block, run to
\* completion; actorId is socketUser.get(ws), and a socket that is not
\* bound gets "Not authenticated" (NotAuthenticated below).
\* ------------------------------------------------------------------------

IsMember(room, userId) == Includes(room.members, userId)

\* A host check that lets everybody pass.
NotHostNever(room, actorId) == FALSE

\* The host check of the host-only handlers: room.hostUserId !== actorId.
NotHost(room, actorId) == room.hostUserId /= actorId

RoomCreate(ws, gameId) ==
    /\ ws \notin closedSockets
    /\ socketUser[ws] /= None
    /\ gameId /= "" => roomsCreated < Len(RoomCodes)
    /\ LET actorId == socketUser[ws] IN
       IF gameId = ""
       THEN Fail(ws, "gameId is required")
       ELSE LET roomId == RoomCodes[roomsCreated + 1]
                room   == NewRoom(actorId, gameId)
            IN  /\ rooms' = Put(rooms, roomId, room)
                /\ roomsCreated' = roomsCreated + 1
                /\ Reply(ws, roomStatePayload(roomId, room))
                /\ sent' = <<>>
                /\ UNCHANGED <<users, socketUser, socketsByUserId, closedSockets,
                               invites, invitesCreated>>

\* room:join that forgets the lock.
JoinLockedNever(room, actorId) == FALSE

\* room:join refuses a locked room to whoever is not a member of it yet.
JoinLocked(room, actorId) == room.locked /\ ~IsMember(room, actorId)

\* room:join refusing a streaming room to new spectators as well.
JoinStreamFullForAll(room, actorId, joinAsSpectator) ==
    room.session.mode = "stream" /\ ~IsMember(room, actorId)

\* room:join refuses a streaming room to a new player.
JoinStreamFull(room, actorId, joinAsSpectator) ==
    room.session.mode = "stream" /\ ~IsMember(room, actorId) /\ ~joinAsSpectator

\* The room after room:join let actorId in.
JoinRoom(room, actorId, joinAsSpectator) ==
    [room EXCEPT
        !.members = IF IsMember(room, actorId) THEN @ ELSE Push(@, actorId),
        !.spectators = IF joinAsSpectator THEN @ \cup {actorId} ELSE @ \ {actorId}]

\* room:join that tells the joining user about a stream session only.
SessionEventsOnJoinStreamOnly(w, roomId, actorId) ==
    LET room == w.rooms[roomId] IN
    IF room.session.mode = "stream"
    THEN sendEventToUser(w, actorId, "stream:start", roomId, room.hostUserId)
    ELSE <<>>

\* What room:join sends the joining user about the room's running session.
SessionEventsOnJoin(w, roomId, actorId) ==
    LET room == w.rooms[roomId] IN
    (IF room.session.mode = "lockstep" /\ room.session.romBase64 /= ""
     THEN WithData(sendEventToUser(w, actorId, "netplay:start", roomId,
                                   room.hostUserId),
                   room.session.romBase64)
     ELSE <<>>)
    \o
    (IF room.session.mode = "stream"
     THEN sendEventToUser(w, actorId, "stream:start", roomId, room.hostUserId)
     ELSE <<>>)

RoomJoin(ws, roomId, joinAsSpectator) ==
    /\ ws \notin closedSockets
    /\ socketUser[ws] /= None
    /\ LET actorId == socketUser[ws] IN
       IF roomId \notin DOMAIN rooms THEN Fail(ws, "Room not found")
       ELSE IF JoinLocked(rooms[roomId], actorId) THEN Fail(ws, "Room is locked")
       ELSE IF JoinStreamFull(rooms[roomId], actorId, joinAsSpectator)
            THEN Fail(ws, "Streaming room is full")
       ELSE LET room == JoinRoom(rooms[roomId], actorId, joinAsSpectator)
                w    == WithRooms(Now, Put(rooms, roomId, room))
            IN  /\ rooms' = w.rooms
                /\ Reply(ws, roomStatePayload(roomId, room))
                /\ sent' = emitRoomUpdate(w, roomId)
                               \o SessionEventsOnJoin(w, roomId, actorId)
                /\ UNCHANGED <<users, socketUser, socketsByUserId, closedSockets,
                               roomsCreated, invites, invitesCreated>>

RoomState(ws, roomId) ==
    /\ ws \notin closedSockets
    /\ socketUser[ws] /= None
    /\ LET actorId == socketUser[ws] IN
       IF roomId \notin DOMAIN rooms THEN Fail(ws, "Room not found")
       ELSE IF ~IsMember(rooms[roomId], actorId) THEN Fail(ws, "Not a room member")
       ELSE /\ Reply(ws, roomStatePayload(roomId, rooms[roomId]))
            /\ sent' = <<>>
            /\ UNCHANGED registries

\* ------------------------------------------------------------------------
\* Room chat
\* ------------------------------------------------------------------------

\* room.chat.length > CHAT_LIMIT: the log is cut down to its last CHAT_LIMIT.
CHAT_LIMIT == 200

\* room:chat:history answers with the last HISTORY_LIMIT messages.
HISTORY_LIMIT == 100

\* arr.slice(-n)
SliceLast(arr, n) ==
    IF Len(arr) <= n THEN arr ELSE SubSeq(arr, Len(arr) - n + 1, Len(arr))

RoomChatHistory(ws, roomId) ==
    /\ ws \notin closedSockets
    /\ socketUser[ws] /= None
    /\ LET actorId == socketUser[ws] IN
       IF roomId \notin DOMAIN rooms THEN Fail(ws, "Room not found")
       ELSE IF ~IsMember(rooms[roomId], actorId) THEN Fail(ws, "Not a room member")
       ELSE /\ Reply(ws, [messages |-> SliceLast(rooms[roomId].chat, HISTORY_LIMIT)])
            /\ sent' = <<>>
            /\ UNCHANGED registries

\* The id of the room's next chat message: uuidv4() is fresh, the model
\* numbers the messages of a room in the order they are sent.
NextChatId(room) ==
    IF room.chat = <<>> THEN 1 ELSE room.chat[Len(room.chat)].id + 1

\* room:chat:send that cuts the log down from its tail.
TrimChatFromTail(chat) ==
    IF Len(chat) > CHAT_LIMIT THEN SubSeq(chat, 1, CHAT_LIMIT) ELSE chat

\* The log after a push: room.chat.slice(-200) once it is longer than that.
TrimChat(chat) ==
    IF Len(chat) > CHAT_LIMIT THEN SliceLast(chat, CHAT_LIMIT) ELSE chat

RoomChatSend(ws, roomId, text) ==
    /\ ws \notin closedSockets
    /\ socketUser[ws] /= None
    /\ LET actorId == socketUser[ws] IN
       IF roomId \notin DOMAIN rooms THEN Fail(ws, "Room not found")
       ELSE IF ~IsMember(rooms[roomId], actorId) THEN Fail(ws, "Not a room member")
       ELSE IF Trim(text) = "" THEN Fail(ws, "Message is empty")
       ELSE LET message == [id |-> NextChatId(rooms[roomId]), fromUserId |-> actorId,
                            text |-> Trim(text)]
                room    == [rooms[roomId] EXCEPT !.chat = TrimChat(Push(@, message))]
                w       == WithRooms(Now, Put(rooms, roomId, room))
            IN  /\ message.id <= MaxChat
                /\ rooms' = w.rooms
                /\ sent' = WithData(sendEventToRoom(w, roomId, "room:chat", actorId, None),
                                    message.id)
                /\ Reply(ws, [delivered |-> TRUE])
                /\ UNCHANGED <<users, socketUser, socketsByUserId, closedSockets,
                               roomsCreated, invites, invitesCreated>>

\* The ready set after room:ready.
SetReady(room, actorId, ready) ==
    LET kept == {id \in room.readyByUserId : IsMember(room, id)}
    IN  IF ready THEN kept \cup {actorId} ELSE kept \ {actorId}

RoomReady(ws, roomId, ready) ==
    /\ ws \notin closedSockets
    /\ socketUser[ws] /= None
    /\ LET actorId == socketUser[ws] IN
       IF roomId \notin DOMAIN rooms THEN Fail(ws, "Room not found")
       ELSE IF ~IsMember(rooms[roomId], actorId) THEN Fail(ws, "Not a room member")
       ELSE IF actorId \in rooms[roomId].spectators
            THEN Fail(ws, "Spectator cannot toggle ready")
       ELSE LET room == [rooms[roomId] EXCEPT
                            !.readyByUserId = SetReady(rooms[roomId], actorId, ready)]
                w    == WithRooms(Now, Put(rooms, roomId, room))
            IN  /\ rooms' = w.rooms
                /\ sent' = emitRoomUpdate(w, roomId)
                /\ Reply(ws, roomStatePayload(roomId, room))
                /\ UNCHANGED <<users, socketUser, socketsByUserId, closedSockets,
                               roomsCreated, invites, invitesCreated>>

RoomLock(ws, roomId, locked) ==
    /\ ws \notin closedSockets
    /\ socketUser[ws] /= None
    /\ LET actorId == socketUser[ws] IN
       IF roomId \notin DOMAIN rooms THEN Fail(ws, "Room not found")
       ELSE IF NotHost(rooms[roomId], actorId)
            THEN Fail(ws, "Only host can change lock")
       ELSE LET room == [rooms[roomId] EXCEPT !.locked = locked]
                w    == WithRooms(Now, Put(rooms, roomId, room))
            IN  /\ rooms' = w.rooms
                /\ sent' = emitRoomUpdate(w, roomId)
                /\ Reply(ws, roomStatePayload(roomId, room))
                /\ UNCHANGED <<users, socketUser, socketsByUserId, closedSockets,
                               roomsCreated, invites, invitesCreated>>

\* room:kick's check of its target: "" or the actor is no target.
KickTargetInvalid(actorId, targetUserId) ==
    targetUserId = "" \/ targetUserId = actorId

\* The room after room:kick removed userId.
RemoveMember(room, userId) ==
    LET members == Without(room.members, userId)
    IN  [room EXCEPT !.members = members,
                     !.spectators = @ \ {userId},
                     !.readyByUserId = {id \in @ : id /= userId /\ Includes(members, id)}]

\* room:kick that sends the room update to the target as well.
KickEventsWithUpdate(w, roomId, actorId, targetUserId) ==
    sendEventToUser(w, targetUserId, "room:kicked", roomId, actorId)
        \o sendEventToUser(w, targetUserId, "room:update", roomId, None)
        \o emitRoomUpdate(w, roomId)

\* What room:kick sends: room:kicked to the target, then the room update.
KickEvents(w, roomId, actorId, targetUserId) ==
    sendEventToUser(w, targetUserId, "room:kicked", roomId, actorId)
        \o emitRoomUpdate(w, roomId)

RoomKick(ws, roomId, targetUserId) ==
    /\ ws \notin closedSockets
    /\ socketUser[ws] /= None
    /\ LET actorId == socketUser[ws] IN
       IF roomId \notin DOMAIN rooms THEN Fail(ws, "Room not found")
       ELSE IF NotHost(rooms[roomId], actorId) THEN Fail(ws, "Only host can kick")
       ELSE IF KickTargetInvalid(actorId, targetUserId)
            THEN Fail(ws, "Invalid target user")
       ELSE IF ~IsMember(rooms[roomId], targetUserId)
            THEN Fail(ws, "Target user is not in room")
       ELSE LET room == RemoveMember(rooms[roomId], targetUserId)
                w    == WithRooms(Now, Put(rooms, roomId, room))
            IN  /\ rooms' = w.rooms
                /\ sent' = KickEvents(w, roomId, actorId, targetUserId)
                /\ Reply(ws, roomStatePayload(roomId, room))
                /\ UNCHANGED <<users, socketUser, socketsByUserId, closedSockets,
                               roomsCreated, invites, invitesCreated>>

RoomTransferHost(ws, roomId, targetUserId) ==
    /\ ws \notin closedSockets
    /\ socketUser[ws] /= None
    /\ LET actorId == socketUser[ws] IN
       IF roomId \notin DOMAIN rooms THEN Fail(ws, "Room not found")
       ELSE IF NotHost(rooms[roomId], actorId)
            THEN Fail(ws, "Only host can transfer host")
       ELSE IF targetUserId = "" \/ ~IsMember(rooms[roomId], targetUserId)
            THEN Fail(ws, "Target user is not in room")
       ELSE IF targetUserId = actorId
            THEN /\ Reply(ws, roomStatePayload(roomId, rooms[roomId]))
                 /\ sent' = <<>>
                 /\ UNCHANGED registries
       ELSE LET room == [rooms[roomId] EXCEPT !.hostUserId = targetUserId]
                w    == WithRooms(Now, Put(rooms, roomId, room))
            IN  /\ rooms' = w.rooms
                /\ sent' = emitRoomUpdate(w, roomId)
                /\ Reply(ws, roomStatePayload(roomId, room))
                /\ UNCHANGED <<users, socketUser, socketsByUserId, closedSockets,
                               roomsCreated, invites, invitesCreated>>

\* ------------------------------------------------------------------------
\* Session start
\* ------------------------------------------------------------------------

NetplayPayload(gameId, romBase64, emulatorId, romHash, protocolVersion, coreVersion) ==
    [gameId |-> gameId, romBase64 |-> romBase64, emulatorId |-> emulatorId,
     romHash |-> romHash, protocolVersion |-> protocolVersion,
     coreVersion |-> coreVersion]

\* netplay:start payloads: a complete one, and one with each of gameId,
\* romBase64, emulatorId and romHash empty.
NetplayPayloads ==
    {NetplayPayload("smb", "rom", "nes", "h", "2", "fceux"),
     NetplayPayload("", "rom", "nes", "h", "2", "fceux"),
     NetplayPayload("smb", "", "nes", "h", "2", "fceux"),
     NetplayPayload("smb", "rom", "", "h", "2", "fceux"),
     NetplayPayload("smb", "rom", "nes", "", "2", "fceux")}

\* More netplay:start payloads: another rom, a blank gameId, and one with each
\* of protocolVersion and coreVersion empty.
AllNetplayPayloads ==
    NetplayPayloads \cup
    {NetplayPayload("smb", "rom2", "nes", "h", "2", "fceux"),
     NetplayPayload(" ", "rom", "nes", "h", "2", "fceux"),
     NetplayPayload("smb", "rom", "nes", "h", "", "fceux"),
     NetplayPayload("smb", "rom", "nes", "h", "2", "")}

NetplayStart(ws, roomId, p) ==
    /\ ws \notin closedSockets
    /\ socketUser[ws] /= None
    /\ LET actorId == socketUser[ws] IN
       IF roomId \notin DOMAIN rooms THEN Fail(ws, "Room not found")
       ELSE IF NotHost(rooms[roomId], actorId)
            THEN Fail(ws, "Only host can start netplay")
       ELSE IF ~IsMember(rooms[roomId], actorId) THEN Fail(ws, "Not a room member")
       ELSE IF Trim(p.gameId) = "" \/ p.romBase64 = "" \/ Trim(p.emulatorId) = ""
                  \/ Trim(p.romHash) = ""
            THEN Fail(ws, "gameId, romBase64, emulatorId and romHash are required")
       ELSE LET room == [rooms[roomId] EXCEPT
                            !.session =
                                [mode |-> "lockstep", gameId |-> Trim(p.gameId),
                                 romBase64 |-> p.romBase64,
                                 protocolVersion |-> OrElse(Trim(p.protocolVersion), "1"),
                                 coreVersion |-> OrElse(Trim(p.coreVersion), "unknown")]]
                w    == WithRooms(Now, Put(rooms, roomId, room))
            IN  /\ rooms' = w.rooms
                /\ sent' = emitRoomUpdate(w, roomId)
                               \o WithData(sendEventToRoom(w, roomId, "netplay:start",
                                                           room.hostUserId, None),
                                           room.session.romBase64)
                /\ Reply(ws, [started |-> TRUE])
                /\ UNCHANGED <<users, socketUser, socketsByUserId, closedSockets,
                               roomsCreated, invites, invitesCreated>>

\* stream:start's players: the members that are not spectators.
streamPlayers(room) == SelectSeq(room.members, LAMBDA id : id \notin room.spectators)

\* stream:start checking for at least two players instead of exactly two.
StreamCapacityAtLeast(room) == Len(streamPlayers(room)) >= 2

\* stream:start's capacity check.
StreamCapacityOk(room) == Len(streamPlayers(room)) = 2

StreamStart(ws, roomId, gameId) ==
    /\ ws \notin closedSockets
    /\ socketUser[ws] /= None
    /\ LET actorId == socketUser[ws] IN
       IF roomId \notin DOMAIN rooms THEN Fail(ws, "Room not found")
       ELSE IF NotHost(rooms[roomId], actorId)
            THEN Fail(ws, "Only host can start stream")
       ELSE IF ~IsMember(rooms[roomId], actorId) THEN Fail(ws, "Not a room member")
       ELSE IF gameId = "" THEN Fail(ws, "gameId is required")
       ELSE IF ~StreamCapacityOk(rooms[roomId])
            THEN Fail(ws, "Streaming mode requires exactly 2 members")
       ELSE LET room == [rooms[roomId] EXCEPT
                            !.session = [mode |-> "stream", gameId |-> gameId,
                                         romBase64 |-> "", protocolVersion |-> "",
                                         coreVersion |-> ""]]
                w    == WithRooms(Now, Put(rooms, roomId, room))
            IN  /\ rooms' = w.rooms
                /\ sent' = emitRoomUpdate(w, roomId)
                               \o sendEventToRoom(w, roomId, "stream:start",
                                                  room.hostUserId, None)
                /\ Reply(ws, [started |-> TRUE])
                /\ UNCHANGED <<users, socketUser, socketsByUserId, closedSockets,
                               roomsCreated, invites, invitesCreated>>

\* ------------------------------------------------------------------------
\* room:close
\* ------------------------------------------------------------------------

\* A host's room:close that notifies every member, the host included.
HostCloseEventsToAll(w, roomId, room, actorId) ==
    FlatMap(room.members,
            LAMBDA memberId :
                sendEventToUser(w, memberId, "room:closed", roomId, None)
                \o broadcastPresence(w, memberId))

\* What a host's room:close sends: per member, room:closed unless the member
\* is the actor, then that member's presence; `w` no longer holds the room.
HostCloseEvents(w, roomId, room, actorId) ==
    FlatMap(room.members,
            LAMBDA memberId :
                (IF memberId /= actorId
                 THEN sendEventToUser(w, memberId, "room:closed", roomId, None)
                 ELSE <<>>)
                \o broadcastPresence(w, memberId))

\* The room after a member that is not its host closed it.
LeaveOnClose(room, actorId) ==
    LET members == Without(room.members, actorId)
    IN  [room EXCEPT !.members = members,
                     !.spectators = @ \ {actorId},
                     !.readyByUserId = {id \in @ : id /= actorId /\ Includes(members, id)}]

RoomClose(ws, roomId) ==
    /\ ws \notin closedSockets
    /\ socketUser[ws] /= None
    /\ LET actorId == socketUser[ws] IN
       IF roomId = "" THEN Fail(ws, "roomId is required")
       ELSE IF roomId \notin DOMAIN rooms
            THEN /\ Reply(ws, [closed |-> FALSE])
                 /\ sent' = <<>>
                 /\ UNCHANGED registries
       ELSE IF ~IsMember(rooms[roomId], actorId) THEN Fail(ws, "Not a room member")
       ELSE IF rooms[roomId].hostUserId = actorId
            THEN LET w == WithRooms(Now, Drop(rooms, roomId))
                 IN  /\ rooms' = w.rooms
                     /\ sent' = HostCloseEvents(w, roomId, rooms[roomId], actorId)
                     /\ Reply(ws, [closed |-> TRUE])
                     /\ UNCHANGED <<users, socketUser, socketsByUserId, closedSockets,
                                    roomsCreated, invites, invitesCreated>>
       ELSE LET room == LeaveOnClose(rooms[roomId], actorId)
                w    == WithRooms(Now, Put(rooms, roomId, room))
            IN  /\ rooms' = w.rooms
                /\ sent' = emitRoomUpdate(w, roomId) \o broadcastPresence(w, actorId)
                /\ Reply(ws, [closed |-> TRUE])
                /\ UNCHANGED <<users, socketUser, socketsByUserId, closedSockets,
                               roomsCreated, invites, invitesCreated>>

\* ------------------------------------------------------------------------
\* Invites
\* ------------------------------------------------------------------------

InviteSend(ws, friendUserId, roomId, gameId) ==
    /\ ws \notin closedSockets
    /\ socketUser[ws] /= None
    /\ LET actorId == socketUser[ws]
           refused ==
               IF friendUserId = "" \/ roomId = "" \/ gameId = ""
                   THEN "friendUserId, roomId and gameId are required"
               ELSE IF ~isOnline(Now, friendUserId) THEN "Friend is offline"
               ELSE IF ~areFriends(Now, actorId, friendUserId)
                   THEN "User is not in your friends list"
               ELSE IF roomId \notin DOMAIN rooms THEN "Room not found"
               ELSE IF NotHost(rooms[roomId], actorId)
                   THEN "Only host can send room invites"
               ELSE IF ~IsMember(rooms[roomId], actorId) THEN "You are not in the room"
               ELSE IF actorId \notin DOMAIN users THEN "Sender not found"
               ELSE ""
       IN  /\ refused = "" => invitesCreated < MaxInvites
           /\ IF refused /= "" THEN Fail(ws, refused)
              ELSE LET inviteId == invitesCreated + 1 IN
                   /\ invites' = Put(invites, inviteId,
                                     [fromUserId |-> actorId, toUserId |-> friendUserId,
                                      roomId |-> roomId, gameId |-> gameId])
                   /\ invitesCreated' = inviteId
                   /\ sent' = sendEventToUser(Now, friendUserId, "invite:received",
                                              roomId, actorId)
                   /\ Reply(ws, [inviteId |-> inviteId])
                   /\ UNCHANGED <<users, socketUser, socketsByUserId, closedSockets,
                                  rooms, roomsCreated>>

\* invite:respond refuses a streaming room that already holds two members.
InviteStreamFull(room, actorId) ==
    room.session.mode = "stream" /\ ~IsMember(room, actorId) /\ Len(room.members) >= 2

\* invite:respond refuses a locked room to whoever is not a member of it yet.
InviteLocked(room, actorId) == room.locked /\ ~IsMember(room, actorId)

\* invite:respond without invites.delete: the invite stays in the registry.
ConsumeInviteNever(invs, inviteId) == invs

\* The invite registry after the addressee answered inviteId.
ConsumeInvite(invs, inviteId) == Drop(invs, inviteId)

\* ------------------------------------------------------------------------
\* Relays: netplay:input, stream:signal, stream:input, room:pause.  The
\* clients send them without a requestId (SocialClient.send); requestId is
\* None where the message carries none.
\* ------------------------------------------------------------------------

\* A relay handler that answers every message it relays.
RelayedAnswered(ws, requestId, evs) ==
    /\ sent' = evs
    /\ response' = sendResponse(ws, requestId, TRUE, [delivered |-> TRUE], "")
    /\ UNCHANGED registries

\* The end of a relay handler: the events go out, and a response only if the
\* message carried a requestId.
Relayed(ws, requestId, evs) ==
    /\ sent' = evs
    /\ response' = IF requestId /= None
                   THEN sendResponse(ws, requestId, TRUE, [delivered |-> TRUE], "")
                   ELSE NoResponse
    /\ UNCHANGED registries

\* A relay handler's sendResponse(ws, msg.requestId, false, undefined, error).
NotRelayed(ws, requestId, error) ==
    /\ response' = sendResponse(ws, requestId, FALSE, NoPayload, error)
    /\ sent' = <<>>
    /\ UNCHANGED registries

\* A session check that passes whatever the room holds.
HasSessionAlways(room) == TRUE

\* room.session is set.
HasSession(room) == room.session /= NoSession

\* finite: Number.isFinite holds of payload.frame and payload.state.
NetplayInput(ws, requestId, roomId, finite) ==
    /\ ws \notin closedSockets
    /\ socketUser[ws] /= None
    /\ LET actorId == socketUser[ws] IN
       IF roomId \notin DOMAIN rooms THEN NotRelayed(ws, requestId, "Room not found")
       ELSE IF ~IsMember(rooms[roomId], actorId)
            THEN NotRelayed(ws, requestId, "Not a room member")
       ELSE IF ~HasSession(rooms[roomId])
            THEN NotRelayed(ws, requestId, "Netplay not started")
       ELSE IF rooms[roomId].session.mode /= "lockstep"
            THEN NotRelayed(ws, requestId, "Room is in streaming mode")
       ELSE IF ~finite THEN NotRelayed(ws, requestId, "frame and state are required")
       ELSE Relayed(ws, requestId,
                    sendEventToRoom(Now, roomId, "netplay:input", actorId, actorId))

\* signalOk: payload.signal is an object.
StreamSignal(ws, requestId, roomId, targetUserId, signalOk) ==
    /\ ws \notin closedSockets
    /\ socketUser[ws] /= None
    /\ LET actorId == socketUser[ws] IN
       IF roomId \notin DOMAIN rooms THEN NotRelayed(ws, requestId, "Room not found")
       ELSE IF ~IsMember(rooms[roomId], actorId)
            THEN NotRelayed(ws, requestId, "Not a room member")
       ELSE IF targetUserId = "" \/ ~IsMember(rooms[roomId], targetUserId)
            THEN NotRelayed(ws, requestId, "Target is not in room")
       ELSE IF ~signalOk THEN NotRelayed(ws, requestId, "signal payload is required")
       ELSE Relayed(ws, requestId,
                    sendEventToUser(Now, targetUserId, "stream:signal", roomId, actorId))

\* finite: Number.isFinite holds of payload.state.
StreamInput(ws, requestId, roomId, finite) ==
    /\ ws \notin closedSockets
    /\ socketUser[ws] /= None
    /\ LET actorId == socketUser[ws] IN
       IF roomId \notin DOMAIN rooms THEN NotRelayed(ws, requestId, "Room not found")
       ELSE IF ~IsMember(rooms[roomId], actorId)
            THEN NotRelayed(ws, requestId, "Not a room member")
       ELSE IF actorId = rooms[roomId].hostUserId
            THEN NotRelayed(ws, requestId, "Host should not send stream input")
       ELSE IF ~finite THEN NotRelayed(ws, requestId, "state is required")
       ELSE IF ~HasSession(rooms[roomId]) \/ rooms[roomId].session.mode /= "stream"
            THEN NotRelayed(ws, requestId, "Streaming mode is not active")
       ELSE Relayed(ws, requestId,
                    sendEventToUser(Now, rooms[roomId].hostUserId, "stream:input",
                                    roomId, actorId))

\* isBoolean: typeof payload.paused === "boolean".
RoomPause(ws, requestId, roomId, isBoolean) ==
    /\ ws \notin closedSockets
    /\ socketUser[ws] /= None
    /\ LET actorId == socketUser[ws] IN
       IF roomId \notin DOMAIN rooms THEN NotRelayed(ws, requestId, "Room not found")
       ELSE IF ~IsMember(rooms[roomId], actorId)
            THEN NotRelayed(ws, requestId, "Not a room member")
       ELSE IF ~HasSession(rooms[roomId])
            THEN NotRelayed(ws, requestId, "Session is not active")
       ELSE IF ~isBoolean THEN NotRelayed(ws, requestId, "paused flag is required")
       ELSE Relayed(ws, requestId,
                    sendEventToRoom(Now, roomId, "room:pause", actorId, actorId))

\* ------------------------------------------------------------------------
\* Invites
\* ------------------------------------------------------------------------

InviteRespond(ws, inviteId, accept) ==
    /\ ws \notin closedSockets
    /\ socketUser[ws] /= None
    /\ LET actorId == socketUser[ws] IN
       IF inviteId \notin DOMAIN invites THEN Fail(ws, "Invite not found")
       ELSE IF invites[inviteId].toUserId /= actorId
            THEN Fail(ws, "Invite does not belong to user")
       ELSE LET invite == invites[inviteId]
                failed(error) ==
                    /\ response' = sendResponse(ws, RequestIdOf(ws), FALSE, NoPayload,
                                                 error)
                    /\ sent' = <<>>
                    /\ UNCHANGED rooms
            IN  /\ invites' = ConsumeInvite(invites, inviteId)
                /\ UNCHANGED <<users, socketUser, socketsByUserId, closedSockets,
                               roomsCreated, invitesCreated>>
                /\ IF ~accept
                   THEN /\ sent' = sendEventToUser(Now, invite.fromUserId,
                                                   "invite:declined", None, actorId)
                        /\ Reply(ws, [declined |-> TRUE])
                        /\ UNCHANGED rooms
                   ELSE IF invite.roomId \notin DOMAIN rooms
                        THEN failed("Room no longer exists")
                   ELSE IF InviteStreamFull(rooms[invite.roomId], actorId)
                        THEN failed("Streaming room is full")
                   ELSE IF InviteLocked(rooms[invite.roomId], actorId)
                        THEN failed("Room is locked")
                   ELSE LET old  == rooms[invite.roomId]
                            room == [old EXCEPT !.members =
                                        IF IsMember(old, actorId) THEN @
                                        ELSE Push(@, actorId)]
                            w    == WithRooms(Now, Put(rooms, invite.roomId, room))
                        IN  /\ rooms' = w.rooms
                            /\ sent' = emitRoomUpdate(w, invite.roomId)
                                           \o sendEventToUser(w, invite.fromUserId,
                                                  "invite:accepted", invite.roomId, actorId)
                            /\ Reply(ws, [roomId |-> invite.roomId])

\* ------------------------------------------------------------------------
\* Messages that are not requests
\* ------------------------------------------------------------------------

\* What a raw message may be: text JSON.parse throws on; the text `null`;
\* JSON that has no type (an array, a number, a string); an object whose
\* type no handler knows, with a requestId.
RawMessages == {"unparseable", "null", "no type", "unknown type"}

\* An exception that leaves the message listener: nothing catches it, and the
\* process ends with every connection and every registry it held; users.json
\* stays.
Uncaught ==
    /\ response' = NoResponse
    /\ sent' = <<>>
    /\ closedSockets' = Conns
    /\ socketUser' = [c \in Conns |-> None]
    /\ socketsByUserId' = [u \in DOMAIN socketsByUserId |-> {}]
    /\ rooms' = <<>>
    /\ invites' = <<>>
    /\ UNCHANGED <<users, roomsCreated, invitesCreated>>

\* ws.on("message") for a raw message that no handler is written for.
OnMessage(ws, raw) ==
    /\ ws \notin closedSockets
    /\ IF raw = "unparseable"
       THEN NotRelayed(ws, None, "Malformed JSON")
       ELSE IF raw = "null"
            THEN Uncaught    \* msg.payload of null: TypeError
       ELSE LET requestId == IF raw = "unknown type" THEN RequestIdOf(ws) ELSE None
            IN  IF socketUser[ws] = None
                THEN NotRelayed(ws, requestId, "Not authenticated")
                ELSE NotRelayed(ws, requestId, "Unknown type")

\* Any request but auth on a socket that is not bound to a user.
NotAuthenticated(ws) ==
    /\ ws \notin closedSockets
    /\ socketUser[ws] = None
    /\ Fail(ws, "Not authenticated")

\* ------------------------------------------------------------------------
\* The signaling server
\* ------------------------------------------------------------------------

\* The user directory users.json holds when the server starts.
InitUsers ==
    [u \in Users |-> [friends |-> CASE u = "u1" -> <<"u2", "u3">>
                                    [] OTHER -> <<"u1">>,
                      friendCode |-> FriendCodeOf(u)]]

ServerInit ==
    /\ users = InitUsers
    /\ socketUser = [c \in Conns |-> None]
    /\ socketsByUserId = [u \in Users |-> {}]
    /\ closedSockets = {}
    /\ rooms = <<>>
    /\ roomsCreated = 0
    /\ invites = <<>>
    /\ invitesCreated = 0
    /\ response = NoResponse
    /\ sent = <<>>

\* Handlers for requests from the sockets in C; the clients' engines are not
\* involved.
AuthNext(C) ==
    /\ \E ws \in C : \E userId \in {"", ProfileOf(ws)} :
          Auth(ws, userId, FriendCodeOf(ProfileOf(ws)))
    /\ UNCHANGED lockstepVars

\* auth with whatever userId the payload carries.
AuthAsNext(C) ==
    /\ \E ws \in C : \E userId \in Users : Auth(ws, userId, FriendCodeOf(userId))
    /\ UNCHANGED lockstepVars

\* auth of a client whose profile carries whatever friend code was drawn.
AuthCodeNext(C) ==
    /\ \E ws \in C, friendCode \in AuthCodeInputs : Auth(ws, ProfileOf(ws), friendCode)
    /\ UNCHANGED lockstepVars

FriendsAddNext(C) ==
    /\ \E ws \in C, friendCode \in FriendCodeInputs : FriendsAdd(ws, friendCode)
    /\ UNCHANGED lockstepVars

CloseNext(C) ==
    /\ \E ws \in C : ConnClose(ws)
    /\ UNCHANGED lockstepVars

NotAuthenticatedNext(C) ==
    /\ \E ws \in C : NotAuthenticated(ws)
    /\ UNCHANGED lockstepVars

\* room:create while no room was created yet.
RoomCreateNext(C) ==
    /\ \E ws \in C, gameId \in GameIdInputs :
          /\ gameId /= "" => roomsCreated = 0
          /\ RoomCreate(ws, gameId)
    /\ UNCHANGED lockstepVars

\* room:create, whatever was created before.
RoomCreateMoreNext(C) ==
    /\ \E ws \in C, gameId \in GameIdInputs : RoomCreate(ws, gameId)
    /\ UNCHANGED lockstepVars

RoomJoinNext(C) ==
    /\ \E ws \in C, roomId \in RoomIdInputs, sp \in BOOLEAN : RoomJoin(ws, roomId, sp)
    /\ UNCHANGED lockstepVars

\* room:join, as a player, of a room that RoomJoinNext does not ask for.
RoomJoinOtherNext(C) ==
    /\ \E ws \in C, roomId \in AllRoomIds \ RoomIdInputs : RoomJoin(ws, roomId, FALSE)
    /\ UNCHANGED lockstepVars

RoomStateNext(C) ==
    /\ \E ws \in C, roomId \in RoomIdInputs : RoomState(ws, roomId)
    /\ UNCHANGED lockstepVars

RoomChatHistoryNext(C) ==
    /\ \E ws \in C, roomId \in RoomIdInputs : RoomChatHistory(ws, roomId)
    /\ UNCHANGED lockstepVars

RoomChatSendNext(C) ==
    /\ \E ws \in C, roomId \in RoomIdInputs, text \in ChatTextInputs :
          RoomChatSend(ws, roomId, text)
    /\ UNCHANGED lockstepVars

RoomReadyNext(C) ==
    /\ \E ws \in C, roomId \in RoomIdInputs, ready \in BOOLEAN :
          RoomReady(ws, roomId, ready)
    /\ UNCHANGED lockstepVars

RoomLockNext(C) ==
    /\ \E ws \in C, roomId \in RoomIdInputs, locked \in BOOLEAN :
          RoomLock(ws, roomId, locked)
    /\ UNCHANGED lockstepVars

RoomKickNext(C) ==
    /\ \E ws \in C, roomId \in RoomIdInputs, target \in {""} \cup Users :
          RoomKick(ws, roomId, target)
    /\ UNCHANGED lockstepVars

RoomTransferHostNext(C) ==
    /\ \E ws \in C, roomId \in RoomIdInputs, target \in {""} \cup Users :
          RoomTransferHost(ws, roomId, target)
    /\ UNCHANGED lockstepVars

NetplayStartNext(C) ==
    /\ \E ws \in C, roomId \in RoomIdInputs, p \in NetplayPayloads :
          NetplayStart(ws, roomId, p)
    /\ UNCHANGED lockstepVars

NetplayStartAnyNext(C) ==
    /\ \E ws \in C, roomId \in RoomIdInputs, p \in AllNetplayPayloads :
          NetplayStart(ws, roomId, p)
    /\ UNCHANGED lockstepVars

StreamStartNext(C) ==
    /\ \E ws \in C, roomId \in RoomIdInputs, gameId \in GameIdInputs :
          StreamStart(ws, roomId, gameId)
    /\ UNCHANGED lockstepVars

RoomCloseNext(C) ==
    /\ \E ws \in C, roomId \in {""} \cup RoomIdInputs : RoomClose(ws, roomId)
    /\ UNCHANGED lockstepVars

InviteSendNext(C) ==
    /\ \E ws \in C, friend \in Users, roomId \in RoomIdInputs, gameId \in GameIdInputs :
          InviteSend(ws, friend, roomId, gameId)
    /\ UNCHANGED lockstepVars

InviteRespondNext(C) ==
    /\ \E ws \in C, inviteId \in {0} \cup InviteIds, accept \in BOOLEAN :
          InviteRespond(ws, inviteId, accept)
    /\ UNCHANGED lockstepVars

FriendsListNext(C) ==
    /\ \E ws \in C : FriendsList(ws)
    /\ UNCHANGED lockstepVars

\* msg.requestId of a relay message: none as the clients send it, or one.
RelayRequestIds(ws) == {None, RequestIdOf(ws)}

NetplayInputNext(C) ==
    /\ \E ws \in C, roomId \in RoomIdInputs, finite \in BOOLEAN :
          \E requestId \in RelayRequestIds(ws) :
             NetplayInput(ws, requestId, roomId, finite)
    /\ UNCHANGED lockstepVars

StreamSignalNext(C) ==
    /\ \E ws \in C, roomId \in RoomIdInputs, target \in {""} \cup Users,
          signalOk \in BOOLEAN :
          \E requestId \in RelayRequestIds(ws) :
             StreamSignal(ws, requestId, roomId, target, signalOk)
    /\ UNCHANGED lockstepVars

StreamInputNext(C) ==
    /\ \E ws \in C, roomId \in RoomIdInputs, finite \in BOOLEAN :
          \E requestId \in RelayRequestIds(ws) :
             StreamInput(ws, requestId, roomId, finite)
    /\ UNCHANGED lockstepVars

RoomPauseNext(C) ==
    /\ \E ws \in C, roomId \in RoomIdInputs, isBoolean \in BOOLEAN :
          \E requestId \in RelayRequestIds(ws) :
             RoomPause(ws, requestId, roomId, isBoolean)
    /\ UNCHANGED lockstepVars

OnMessageNext(C) ==
    /\ \E ws \in C, raw \in RawMessages : OnMessage(ws, raw)
    /\ UNCHANGED lockstepVars

\* Two clients, every request type.
Clients == {"c1", "c2"}

ServerNext ==
    \/ AuthNext(Clients)
    \/ CloseNext(Clients)
    \/ NotAuthenticatedNext(Clients)
    \/ RoomCreateNext(Clients)
    \/ RoomJoinNext(Clients)
    \/ RoomStateNext(Clients)
    \/ RoomReadyNext(Clients)
    \/ RoomLockNext(Clients)
    \/ RoomKickNext(Clients)
    \/ RoomTransferHostNext(Clients)
    \/ NetplayStartNext(Clients)
    \/ StreamStartNext(Clients)
    \/ RoomCloseNext(Clients)
    \/ InviteSendNext(Clients)
    \/ InviteRespondNext(Clients)

\* Three clients; the requests that decide who is in a room, who watches it,
\* who is ready and whether it streams.
CrowdNext ==
    \/ AuthNext(Conns)
    \/ CloseNext(Conns)
    \/ RoomCreateNext(Conns)
    \/ RoomJoinNext(Conns)
    \/ RoomStateNext(Conns)
    \/ RoomReadyNext(Conns)
    \/ RoomKickNext(Conns)
    \/ StreamStartNext(Conns)
    \/ RoomCloseNext(Conns)

\* Two clients; the requests that make and answer invites, and those that
\* decide how an accepted invite ends.
InviteNext ==
    \/ AuthNext(Clients)
    \/ CloseNext(Clients)
    \/ RoomCreateNext(Clients)
    \/ RoomJoinNext(Clients)
    \/ RoomLockNext(Clients)
    \/ RoomCloseNext(Clients)
    \/ StreamStartNext(Clients)
    \/ InviteSendNext(Clients)
    \/ InviteRespondNext(Clients)

\* room:join of a user who comes to play (payload.spectator absent or false).
PlayerJoinNext(C) ==
    /\ \E ws \in C, roomId \in RoomIdInputs : RoomJoin(ws, roomId, FALSE)
    /\ UNCHANGED lockstepVars

\* Three clients; the requests that let users into a room or keep them out.
LockedNext ==
    \/ AuthNext(Conns)
    \/ CloseNext(Conns)
    \/ RoomCreateNext(Conns)
    \/ PlayerJoinNext(Conns)
    \/ RoomLockNext(Conns)
    \/ StreamStartNext(Conns)
    \/ InviteSendNext(Conns)
    \/ InviteRespondNext(Conns)

\* Three clients; the requests that fill a room, lock it and make it stream.
StreamNext ==
    \/ AuthNext(Conns)
    \/ CloseNext(Conns)
    \/ RoomCreateNext(Conns)
    \/ RoomJoinNext(Conns)
    \/ RoomLockNext(Conns)
    \/ StreamStartNext(Conns)

\* Two clients; the requests that only a room's host may make, and those
\* that make a room and fill it.
HostNext ==
    \/ AuthNext(Clients)
    \/ CloseNext(Clients)
    \/ RoomCreateNext(Clients)
    \/ PlayerJoinNext(Clients)
    \/ RoomLockNext(Clients)
    \/ RoomKickNext(Clients)
    \/ RoomTransferHostNext(Clients)
    \/ NetplayStartAnyNext(Clients)
    \/ StreamStartNext(Clients)
    \/ InviteSendNext(Clients)

\* Two clients; the requests that start a session, and those that decide who
\* is in the room and who is its host.
NetplayNext ==
    \/ AuthNext(Clients)
    \/ CloseNext(Clients)
    \/ RoomCreateNext(Clients)
    \/ RoomJoinNext(Clients)
    \/ RoomTransferHostNext(Clients)
    \/ NetplayStartAnyNext(Clients)
    \/ StreamStartNext(Clients)

\* One client; the requests that make a room and fill its chat log.
ChatNext ==
    \/ AuthNext({"c1"})
    \/ CloseNext({"c1"})
    \/ RoomCreateNext({"c1"})
    \/ RoomChatHistoryNext({"c1"})
    \/ RoomChatSendNext({"c1"})

\* Two clients that authenticate as any user, and as another user later; the
\* requests that make a room and fill it.
ReauthNext ==
    \/ AuthAsNext(Clients)
    \/ CloseNext(Clients)
    \/ RoomCreateNext(Clients)
    \/ RoomJoinNext(Clients)

\* Three clients, each with a friend code of its own drawing; the requests
\* that make friends.
FriendsNext ==
    \/ AuthCodeNext(Conns)
    \/ CloseNext(Conns)
    \/ FriendsAddNext(Conns)

\* Three clients and two rooms; the requests that put users into rooms.  The
\* users watch and get ready in the first room and play in the second.
RoomsNext ==
    \/ AuthNext(Conns)
    \/ CloseNext(Conns)
    \/ RoomCreateMoreNext(Conns)
    \/ RoomJoinNext(Conns)
    \/ RoomJoinOtherNext(Conns)
    \/ RoomReadyNext(Conns)

\* Three clients; the requests that fill a room and start a session in it,
\* and the relays.
RelayNext ==
    \/ AuthNext(Conns)
    \/ CloseNext(Conns)
    \/ RoomCreateNext(Conns)
    \/ RoomJoinNext(Conns)
    \/ NetplayStartNext(Conns)
    \/ StreamStartNext(Conns)
    \/ NetplayInputNext(Conns)
    \/ StreamSignalNext(Conns)
    \/ StreamInputNext(Conns)
    \/ RoomPauseNext(Conns)

\* Two clients that come to play; every request that changes a room.
UpdateNext ==
    \/ AuthNext(Clients)
    \/ CloseNext(Clients)
    \/ RoomCreateNext(Clients)
    \/ PlayerJoinNext(Clients)
    \/ RoomReadyNext(Clients)
    \/ RoomLockNext(Clients)
    \/ RoomKickNext(Clients)
    \/ RoomTransferHostNext(Clients)
    \/ NetplayStartNext(Clients)
    \/ StreamStartNext(Clients)
    \/ RoomCloseNext(Clients)
    \/ InviteSendNext(Clients)
    \/ InviteRespondNext(Clients)

\* Two clients; raw messages that are no requests, among requests.
RawNext ==
    \/ AuthNext(Clients)
    \/ CloseNext(Clients)
    \/ OnMessageNext(Clients)
    \/ RoomCreateNext(Clients)
    \/ PlayerJoinNext(Clients)
    \/ RoomStateNext(Clients)

\* Two clients; requests that are answered with and without registries
\* changing, and the relays.
RequestsNext ==
    \/ AuthNext(Clients)
    \/ CloseNext(Clients)
    \/ NotAuthenticatedNext(Clients)
    \/ FriendsListNext(Clients)
    \/ RoomCreateNext(Clients)
    \/ PlayerJoinNext(Clients)
    \/ RoomStateNext(Clients)
    \/ NetplayStartNext(Clients)
    \/ StreamStartNext(Clients)
    \/ NetplayInputNext(Clients)
    \/ StreamSignalNext(Clients)
    \/ StreamInputNext(Clients)
    \/ RoomPauseNext(Clients)

\* ------------------------------------------------------------------------
\* Lockstep engines (client side)
\* ------------------------------------------------------------------------

LOCKSTEP_INPUT_DELAY_FRAMES == 3

INPUT_BIT_A == 16

\* The bits of bitToButton, INPUT_BIT_UP .. INPUT_BIT_SELECT.
InputBits == <<1, 2, 4, 8, 16, 32, 64, 128>>

\* Frames the render loop may still start a tick at.
MaxFrame == 3

\* Times the peers' GameView effects are set up within the session, in all.
MaxMounts == 3

\* Every how many frames the loop prunes, and how many frames it keeps.
PRUNE_EVERY == 120

PRUNE_KEEP == 180

HasBit(mask, bit) == (mask \div bit) % 2 = 1

\* mask | bit
BitOr(mask, bit) == IF HasBit(mask, bit) THEN mask ELSE mask + bit

\* mask & ~bit
BitClear(mask, bit) == IF HasBit(mask, bit) THEN mask - bit ELSE mask

Max(a, b) == IF a >= b THEN a ELSE b

\* The two peers of the session: u1 hosts, u2 is the guest.
NesPeers == <<"u1", "u2">>

NesRoom == RoomCodes[1]

\* netplay.localPlayer
localPlayerOf(room, userId) == IF userId = room.hostUserId THEN 1 ELSE 2

\* The netplay part of the activeSession that onNetplayStart builds from a
\* netplay:start payload.
NetplayConfig(roomId, hostUserId, localUserId) ==
    [roomId |-> roomId, hostUserId |-> hostUserId,
     localPlayer |-> localPlayerOf([hostUserId |-> hostUserId], localUserId)]

\* activeSession is null: no session is shown.
NoNetplay == [roomId |-> None, hostUserId |-> None, localPlayer |-> 0]

NoActiveSession == [u \in Users |-> NoNetplay]

remotePlayerOf(localPlayer) == IF localPlayer = 1 THEN 2 ELSE 1

\* The closure of a GameView effect that is not set up.
Unmounted(mounts) ==
    [mounted |-> FALSE, mounts |-> mounts, localPlayer |-> 1,
     localInputState |-> 0,
     previousLocalAppliedState |-> 0, previousRemoteAppliedState |-> 0,
     currentFrame |-> 0, plannedLocalFrame |-> 0,
     localStateByFrame |-> <<>>, remoteStateByFrame |-> <<>>,
     pad |-> <<0, 0>>, applied |-> <<>>]

\* sendNetplayInput(roomId, frame, state), as it travels
Input(frame, state) == [roomId |-> NesRoom, frame |-> frame, state |-> state]

\* The effect's set-up in a lockstep session: frames 0 .. delay-1 are recorded
\* and sent as 0, and the netplay:input listener is registered.
\* Maps are functions from frame - they start at frame 0, so a map with
\* frames 0..n-1 is kept as a function on 0..n-1.
NesSetup(mounts, localPlayer) ==
    [Unmounted(mounts) EXCEPT
        !.mounted = TRUE,
        !.localPlayer = localPlayer,
        !.localStateByFrame = [f \in 0..(LOCKSTEP_INPUT_DELAY_FRAMES - 1) |-> 0],
        !.plannedLocalFrame = LOCKSTEP_INPUT_DELAY_FRAMES]

NesSetupSends ==
    [i \in 1..LOCKSTEP_INPUT_DELAY_FRAMES |-> Input(i - 1, 0)]

NesMount(p) ==
    /\ ~nes[p].mounted
    /\ nes[NesPeers[1]].mounts + nes[NesPeers[2]].mounts < MaxMounts
    /\ activeSession[p] /= NoNetplay
    /\ nes' = [nes EXCEPT ![p] = NesSetup(nes[p].mounts + 1,
                                          activeSession[p].localPlayer)]
    /\ net' = [net EXCEPT ![p] = @ \o NesSetupSends]
    /\ UNCHANGED <<snes, serverVars, client, activeSession>>

\* The effect's clean-up: the loop stops and the listener is replaced by one
\* that does nothing.
NesUnmount(p) ==
    /\ nes[p].mounted
    /\ nes' = [nes EXCEPT ![p] = Unmounted(nes[p].mounts)]
    /\ UNCHANGED <<net, snes, serverVars, client, activeSession>>

\* keydown / keyup of the key mapped to A
NesKeyDown(p) ==
    /\ nes[p].mounted
    /\ nes' = [nes EXCEPT ![p].localInputState = BitOr(@, INPUT_BIT_A)]
    /\ UNCHANGED <<net, snes, serverVars, client, activeSession>>

NesKeyUp(p) ==
    /\ nes[p].mounted
    /\ nes' = [nes EXCEPT ![p].localInputState = BitClear(@, INPUT_BIT_A)]
    /\ UNCHANGED <<net, snes, serverVars, client, activeSession>>

\* applyMaskToPlayer: the controller of `player` after the buttons whose bit
\* differs between previousMask and nextMask were pressed or released.
applyMaskToPlayer(pad, player, previousMask, nextMask) ==
    LET held[i \in 0..Len(InputBits)] ==
            IF i = 0 THEN pad[player]
            ELSE LET bit == InputBits[i] IN
                 IF HasBit(previousMask, bit) = HasBit(nextMask, bit) THEN held[i - 1]
                 ELSE IF HasBit(nextMask, bit) THEN BitOr(held[i - 1], bit)
                 ELSE BitClear(held[i - 1], bit)
    IN  [pad EXCEPT ![player] = held[Len(InputBits)]]

\* A send-ahead that records the frames from currentFrame on again.
FramesToSendAgain(e) ==
    e.currentFrame .. (e.currentFrame + LOCKSTEP_INPUT_DELAY_FRAMES)

\* The loop's send-ahead: frames plannedLocalFrame .. currentFrame + delay are
\* recorded with the current local input.
FramesToSend(e) ==
    e.plannedLocalFrame .. (e.currentFrame + LOCKSTEP_INPUT_DELAY_FRAMES)

SendAhead(e) ==
    [e EXCEPT
        !.localStateByFrame =
            [f \in DOMAIN @ \cup FramesToSend(e) |->
                IF f \in FramesToSend(e) THEN e.localInputState ELSE @[f]],
        !.plannedLocalFrame = Max(@, e.currentFrame + LOCKSTEP_INPUT_DELAY_FRAMES + 1)]

SendAheadSends(e) ==
    LET n == Cardinality(FramesToSend(e))
    IN  [i \in 1..n |-> Input(e.plannedLocalFrame + i - 1, e.localInputState)]

\* The loop steps currentFrame only with both bitmasks for it at hand.
CanStep(e) ==
    /\ e.currentFrame \in DOMAIN e.localStateByFrame
    /\ e.currentFrame \in DOMAIN e.remoteStateByFrame

\* One pass of the stepping loop's body: both masks applied, nes.frame().
StepFrame(e) ==
    LET localFrameState  == e.localStateByFrame[e.currentFrame]
        remoteFrameState == e.remoteStateByFrame[e.currentFrame]
        pad1 == applyMaskToPlayer(e.pad, e.localPlayer,
                                  e.previousLocalAppliedState, localFrameState)
        pad2 == applyMaskToPlayer(pad1, remotePlayerOf(e.localPlayer),
                                  e.previousRemoteAppliedState, remoteFrameState)
    IN  [e EXCEPT
            !.previousLocalAppliedState = localFrameState,
            !.previousRemoteAppliedState = remoteFrameState,
            !.pad = pad2,
            !.applied = Put(@, e.currentFrame, pad2),
            !.currentFrame = @ + 1]

\* Steps per tick.
MAX_STEPS == 2

\* A stepping loop that, when the remote bitmask of currentFrame is missing,
\* goes on with the one applied last.
RECURSIVE StepLoopUngated(_, _)
StepLoopUngated(e, steps) ==
    IF steps < MAX_STEPS /\ e.currentFrame \in DOMAIN e.localStateByFrame
    THEN StepLoopUngated(
             StepFrame(IF CanStep(e) THEN e
                       ELSE [e EXCEPT !.remoteStateByFrame =
                                Put(@, e.currentFrame, e.previousRemoteAppliedState)]),
             steps + 1)
    ELSE e

RECURSIVE StepLoop(_, _)
StepLoop(e, steps) ==
    IF steps < MAX_STEPS /\ CanStep(e) THEN StepLoop(StepFrame(e), steps + 1) ELSE e

PruneMap(map, minFrameToKeep) == [f \in {k \in DOMAIN map : k >= minFrameToKeep} |-> map[f]]

Prune(e) ==
    IF e.currentFrame % PRUNE_EVERY = 0
    THEN LET minFrameToKeep == Max(0, e.currentFrame - PRUNE_KEEP)
         IN  [e EXCEPT !.localStateByFrame = PruneMap(@, minFrameToKeep),
                       !.remoteStateByFrame = PruneMap(@, minFrameToKeep)]
    ELSE e

\* One run of loop() in a lockstep session that is not paused, while the
\* simulation point is below lastFrame.
NesTickUntil(p, lastFrame) ==
    /\ nes[p].mounted
    /\ nes[p].currentFrame < lastFrame
    /\ nes' = [nes EXCEPT ![p] = Prune(StepLoop(SendAhead(nes[p]), 0))]
    /\ net' = [net EXCEPT ![p] = @ \o SendAheadSends(nes[p])]
    /\ UNCHANGED <<snes, serverVars, client, activeSession>>

NesTick(p) == NesTickUntil(p, MaxFrame)

\* Whom the server's netplay:input handler relays an input of actorId to.
NetplayInputRecipients(rms, roomId, actorId) ==
    IF roomId \notin DOMAIN rms THEN <<>>
    ELSE IF ~IsMember(rms[roomId], actorId) THEN <<>>
    ELSE IF rms[roomId].session.mode /= "lockstep" THEN <<>>
    ELSE SelectSeq(rms[roomId].members, LAMBDA m : m /= actorId)

\* The listener GameView registered with onNetplayInput.
OnNetplayInput(e, localUserId, fromUserId, msg) ==
    IF ~e.mounted THEN e
    ELSE IF msg.roomId /= NesRoom THEN e
    ELSE IF fromUserId = localUserId THEN e
    ELSE [e EXCEPT !.remoteStateByFrame = Put(@, msg.frame, msg.state)]

\* The server handles the netplay:input msg of p, and the SocialClient of
\* every recipient hands the event to its listener.
RelayInput(engines, p, msg) ==
    LET to == Elems(NetplayInputRecipients(rooms, msg.roomId, p))
    IN  [q \in DOMAIN engines |->
            IF q \in to THEN OnNetplayInput(engines[q], q, p, msg) ELSE engines[q]]

\* The oldest netplay:input of p that is under way arrives.
NesRelay(p) ==
    /\ net[p] /= <<>>
    /\ nes' = RelayInput(nes, p, Head(net[p]))
    /\ net' = [net EXCEPT ![p] = Tail(@)]
    /\ UNCHANGED <<snes, serverVars, client, activeSession>>

\* ------------------------------------------------------------------------
\* SNES lockstep (SnesGameView)
\* ------------------------------------------------------------------------

BIT_A == 16

\* bitsToInput: the buttons of InputState that are down.
SnesBits == <<1, 2, 4, 8, 16, 32, 64, 128, 256, 512, 1024, 2048>>

bitsToInput(bits) == {b \in Elems(SnesBits) : HasBit(bits, b)}

\* The effect's closure when it is set up; nothing is recorded or sent yet.
SnesSetup(localPlayer) ==
    [localPlayer |-> localPlayer, localInputState |-> 0,
     previousLocalAppliedState |-> 0, previousRemoteAppliedState |-> 0,
     currentFrame |-> 0, plannedLocalFrame |-> 0,
     localStateByFrame |-> <<>>, remoteStateByFrame |-> <<>>,
     input |-> <<{}, {}>>, lastSent |-> None]

\* The bitmask applyStates uses for the current frame: the recorded one, or
\* the one applied last when none is recorded.
StateForFrame(map, frame, previousAppliedState) ==
    IF frame \in DOMAIN map THEN map[frame] ELSE previousAppliedState

\* applyStates in a lockstep session, the emulator session up and not paused.
ApplyStates(e) ==
    LET localStateForFrame  == StateForFrame(e.localStateByFrame, e.currentFrame,
                                             e.previousLocalAppliedState)
        remoteStateForFrame == StateForFrame(e.remoteStateByFrame, e.currentFrame,
                                             e.previousRemoteAppliedState)
        player1State == IF e.localPlayer = 1 THEN localStateForFrame
                        ELSE remoteStateForFrame
        player2State == IF e.localPlayer = 1 THEN remoteStateForFrame
                        ELSE localStateForFrame
    IN  [e EXCEPT
            !.previousLocalAppliedState = localStateForFrame,
            !.previousRemoteAppliedState = remoteStateForFrame,
            !.input = <<bitsToInput(player1State), bitsToInput(player2State)>>,
            !.currentFrame = @ + 1]

SnesTick ==
    /\ snes.currentFrame < MaxFrame
    /\ snes' = ApplyStates(snes)
    /\ UNCHANGED <<nes, net, serverVars, client, activeSession>>

\* What onKeyDown / onKeyUp do once localInputState has changed: the new
\* state is recorded for, and sent as, the frame `delay` ahead.
PlanLocalInput(e, localInputState) ==
    LET planned == Max(e.plannedLocalFrame, e.currentFrame + LOCKSTEP_INPUT_DELAY_FRAMES)
    IN  [e EXCEPT
            !.localInputState = localInputState,
            !.plannedLocalFrame = planned,
            !.localStateByFrame = Put(@, planned, localInputState),
            !.lastSent = Input(planned, localInputState)]

SnesKeyDown ==
    /\ ~HasBit(snes.localInputState, BIT_A)
    /\ snes' = PlanLocalInput(snes, BitOr(snes.localInputState, BIT_A))
    /\ UNCHANGED <<nes, net, serverVars, client, activeSession>>

SnesKeyUp ==
    /\ HasBit(snes.localInputState, BIT_A)
    /\ snes' = PlanLocalInput(snes, BitClear(snes.localInputState, BIT_A))
    /\ UNCHANGED <<nes, net, serverVars, client, activeSession>>

\* onBlur: the local input is cleared; nothing is recorded or sent.
SnesBlur ==
    /\ snes' = [snes EXCEPT !.localInputState = 0]
    /\ UNCHANGED <<nes, net, serverVars, client, activeSession>>

\* The listener SnesGameView registered with onNetplayInput gets an event of
\* the peer.
SnesOnNetplayInput(frame, state) ==
    /\ snes' = [snes EXCEPT !.remoteStateByFrame = Put(@, frame, state)]
    /\ UNCHANGED <<nes, net, serverVars, client, activeSession>>

\* ------------------------------------------------------------------------
\* The signaling clients: SocialClient (renderer) and SignalClient (main
\* process).  Both keep a pending map of the requests they wait for.
\* ------------------------------------------------------------------------

ClientKinds == {"social", "signal"}

\* Number of requestIds (randomUUID values) a client draws.
MaxRequests == 2

RequestIds == 1..MaxRequests

\* Number of sockets of one client whose close event is still to come.
MaxSockets == 2

\* A client after construction.  ws: this.ws (None: null); sockets: the
\* sockets it made whose close event is still to come; pending: the keys of
\* the pending map; auth: the keys whose entry is connect()'s; timers: the
\* timeouts set and not fired or cleared; calls: the calls of each entry's
\* resolve and reject, in order; wire: the responses the server sent that
\* have not reached onmessage; answered: the requests the server answered.
NewClient(kind) ==
    [kind |-> kind, ws |-> None, sockets |-> 0, issued |-> 0, pending |-> {},
     auth |-> {}, timers |-> {}, calls |-> [r \in RequestIds |-> <<>>],
     wire |-> {}, answered |-> {}]

\* entry.resolve / entry.reject of the entries `ids`, each called with `how`.
Settle(c, ids, how) ==
    [c EXCEPT !.calls = [r \in RequestIds |-> IF r \in ids THEN Append(@[r], how)
                                             ELSE @[r]]]

\* rejectAllPending that rejects the entries and leaves them in the map.
rejectAllPendingKept(c, how) == Settle(c, c.pending, how)

\* rejectAllPending: every entry is deleted and rejected; the timer of
\* connect()'s entry is cleared by its reject.
rejectAllPending(c, how) ==
    [Settle(c, c.pending, how) EXCEPT !.pending = {}, !.timers = @ \ c.auth]

\* connect()'s fail: SocialClient closes the socket and forgets it;
\* SignalClient calls reset(), which also rejects all pending.
ConnectFail(c) ==
    IF c.kind = "signal" THEN [rejectAllPending(c, "closed") EXCEPT !.ws = None]
    ELSE [c EXCEPT !.ws = None]

\* connect() with no open socket: a socket is made, it opens, and onopen
\* registers the auth entry with its timeout.  SignalClient resets first.
ClientConnect ==
    /\ client.ws = None
    /\ client.issued < MaxRequests
    /\ client.sockets < MaxSockets
    /\ LET c  == IF client.kind = "signal" THEN rejectAllPending(client, "closed")
                 ELSE client
           id == c.issued + 1
       IN  client' = [c EXCEPT !.ws = "open", !.sockets = @ + 1, !.issued = id,
                               !.pending = @ \cup {id}, !.auth = @ \cup {id},
                               !.timers = @ \cup {id}]
    /\ UNCHANGED <<nes, net, snes, serverVars, activeSession>>

\* request() once connect() has returned: the entry and its timeout are
\* registered, the request is sent.
ClientRequest ==
    /\ client.ws = "open"
    /\ client.issued < MaxRequests
    /\ LET id == client.issued + 1
       IN  client' = [client EXCEPT !.issued = id, !.pending = @ \cup {id},
                                    !.timers = @ \cup {id}]
    /\ UNCHANGED <<nes, net, snes, serverVars, activeSession>>

\* The server answers a request it got, once.
ServerResponse(requestId, ok) ==
    /\ requestId <= client.issued
    /\ requestId \notin client.answered
    /\ client.sockets > 0
    /\ client' = [client EXCEPT !.answered = @ \cup {requestId},
                                 !.wire = @ \cup {[requestId |-> requestId, ok |-> ok]}]
    /\ UNCHANGED <<nes, net, snes, serverVars, activeSession>>

\* onmessage for a response.
ClientOnMessage(msg) ==
    /\ msg \in client.wire
    /\ LET c  == [client EXCEPT !.wire = @ \ {msg}]
           id == msg.requestId
       IN  client' =
             IF id \notin c.pending THEN c
             ELSE LET d == [c EXCEPT !.pending = @ \ {id}]
                  IN  IF id \notin c.auth
                      THEN Settle(d, {id}, IF msg.ok THEN "resolved" ELSE "rejected")
                      ELSE IF msg.ok
                           THEN [Settle(d, {id}, "resolved") EXCEPT !.timers = @ \ {id}]
                           ELSE ConnectFail([Settle(d, {id}, "rejected")
                                                EXCEPT !.timers = @ \ {id}])
    /\ UNCHANGED <<nes, net, snes, serverVars, activeSession>>

\* The timeout of a request fires.
ClientTimeout(requestId) ==
    /\ requestId \in client.timers
    /\ LET c == [client EXCEPT !.timers = @ \ {requestId}]
       IN  client' =
             IF requestId \notin c.pending THEN c
             ELSE LET d == Settle([c EXCEPT !.pending = @ \ {requestId}],
                                  {requestId}, "timeout")
                  IN  IF requestId \in c.auth THEN ConnectFail(d) ELSE d
    /\ UNCHANGED <<nes, net, snes, serverVars, activeSession>>

\* SocialClient.close / SignalClient.reset, called by the application.
ClientClose ==
    /\ client.ws = "open"
    /\ client' = [rejectAllPending(client, "closed") EXCEPT !.ws = None]
    /\ UNCHANGED <<nes, net, snes, serverVars, activeSession>>

\* The close event of a socket: the connection was lost, or the client had
\* closed it.  Responses under way are lost with the last socket.
ClientOnClose ==
    /\ client.sockets > 0
    /\ client' = [rejectAllPending(client, "closed") EXCEPT
                      !.ws = None, !.sockets = @ - 1,
                      !.wire = IF client.sockets = 1 THEN {} ELSE @]
    /\ UNCHANGED <<nes, net, snes, serverVars, activeSession>>

\* The registries while the lockstep session of u1 (host) and u2 runs.
LockstepRoom ==
    [NewRoom(NesPeers[1], "smb") EXCEPT
        !.members = NesPeers,
        !.session = [mode |-> "lockstep", gameId |-> "smb", romBase64 |-> "rom",
                     protocolVersion |-> "1", coreVersion |-> "unknown"]]

SessionInit ==
    /\ users = InitUsers
    /\ socketUser = [c \in Conns |-> IF ProfileOf(c) \in Elems(NesPeers)
                                     THEN ProfileOf(c) ELSE None]
    /\ socketsByUserId = [u \in Users |-> {c \in Conns : ProfileOf(c) = u
                                                        /\ u \in Elems(NesPeers)}]
    /\ closedSockets = {}
    /\ rooms = [r \in {NesRoom} |-> LockstepRoom]
    /\ roomsCreated = 1
    /\ invites = <<>>
    /\ invitesCreated = 0
    /\ response = NoResponse
    /\ sent = <<>>

LockstepIdle ==
    /\ nes = [p \in Elems(NesPeers) |-> Unmounted(0)]
    /\ net = [p \in Elems(NesPeers) |-> <<>>]
    /\ snes = SnesSetup(2)
    /\ client = NewClient("social")

NesNext ==
    \/ \E p \in Elems(NesPeers) : NesMount(p)
    \/ \E p \in Elems(NesPeers) : NesUnmount(p)
    \/ NesKeyDown(NesPeers[1])
    \/ NesKeyUp(NesPeers[1])
    \/ \E p \in Elems(NesPeers) : NesTick(p)
    \/ \E p \in Elems(NesPeers) : NesRelay(p)

\* Bitmasks of the peer with the A button up or down.
SnesMaskInputs == {0, BIT_A}

SnesNext ==
    \/ SnesTick
    \/ SnesKeyDown
    \/ SnesKeyUp
    \/ SnesBlur
    \/ \E frame \in 0..MaxFrame, state \in SnesMaskInputs :
           SnesOnNetplayInput(frame, state)

Init == ServerInit /\ LockstepIdle /\ activeSession = NoActiveSession

Next == ServerNext

vars == <<serverVars, lockstepVars>>

Spec == Init /\ [][Next]_vars

SpecCrowd == Init /\ [][CrowdNext]_vars

SpecInvite == Init /\ [][InviteNext]_vars

SpecLocked == Init /\ [][LockedNext]_vars

SpecStream == Init /\ [][StreamNext]_vars

SpecRooms == Init /\ [][RoomsNext]_vars

SpecHost == Init /\ [][HostNext]_vars

SpecNetplay == Init /\ [][NetplayNext]_vars

SpecChat == Init /\ [][ChatNext]_vars

SpecReauth == Init /\ [][ReauthNext]_vars

SpecFriends == Init /\ [][FriendsNext]_vars

SpecRelay == Init /\ [][RelayNext]_vars

SpecRequests == Init /\ [][RequestsNext]_vars

SpecRaw == Init /\ [][RawNext]_vars

SpecUpdate == Init /\ [][UpdateNext]_vars

\* Three sockets that authenticate as whatever user their payload names, close
\* and make friends: a user may hold several sockets.
PresenceNext ==
    \/ AuthAsNext(Conns)
    \/ CloseNext(Conns)
    \/ FriendsAddNext(Conns)

SpecPresence == Init /\ [][PresenceNext]_vars

\* payload.userId, displayName and friendCode of auth: blank, or the profile's.
AuthUserIds(ws) == {"", " ", ProfileOf(ws)}

DisplayNames == {"", " ", "Ann"}

AuthFriendCodes(ws) == {"", " ", FriendCodeOf(ProfileOf(ws))}

AuthRequestNext(C) ==
    /\ \E ws \in C, displayName \in DisplayNames :
          \E userId \in AuthUserIds(ws), friendCode \in AuthFriendCodes(ws) :
              AuthRequest(ws, userId, displayName, friendCode)
    /\ UNCHANGED lockstepVars

\* Two clients that authenticate with payloads of every kind, or do not, and
\* make requests.
GateNext ==
    \/ AuthRequestNext(Clients)
    \/ CloseNext(Clients)
    \/ NotAuthenticatedNext(Clients)
    \/ OnMessageNext(Clients)
    \/ FriendsAddNext(Clients)
    \/ RoomCreateNext(Clients)
    \/ PlayerJoinNext(Clients)

SpecGate == Init /\ [][GateNext]_vars

\* ------------------------------------------------------------------------
\* The App's active session
\* ------------------------------------------------------------------------

\* social.onNetplayStart: a session that is shown stays as it is; accepted is
\* the outcome of canAcceptNetplaySession.  The App is in no other room.
onNetplayStart(prev, localUserId, payload, accepted) ==
    IF payload.roomId = None \/ ~accepted THEN prev
    ELSE IF prev /= NoNetplay THEN prev
    ELSE NetplayConfig(payload.roomId, payload.hostUserId, localUserId)

\* The sessions after the App of each recipient handled the netplay:start
\* events among evs.
Deliver(sessions, evs, accepted) ==
    LET f[i \in 0..Len(evs)] ==
            IF i = 0 THEN sessions
            ELSE IF evs[i].ev /= "netplay:start" THEN f[i - 1]
            ELSE [f[i - 1] EXCEPT ![evs[i].to] =
                     onNetplayStart(@, evs[i].to,
                                    [roomId |-> evs[i].room, hostUserId |-> evs[i].who],
                                    accepted)]
    IN  f[Len(evs)]

\* The payload startNetplay sends for the selected game.
PlayPayload == NetplayPayload("smb", "rom", "nes", "h", "2", "fceux")

\* onPlay in a room: the host's App shows the session with port 1 and asks
\* the server to start it.  The library is shown only with no session.
OnPlay(ws, roomId, p, accepted) ==
    LET userId == ProfileOf(ws) IN
    /\ activeSession[userId] = NoNetplay
    /\ socketUser[ws] = userId
    /\ roomId \in DOMAIN rooms
    /\ rooms[roomId].hostUserId = userId
    /\ NetplayStart(ws, roomId, p)
    /\ activeSession' =
           Deliver([activeSession EXCEPT ![userId] =
                        [roomId |-> roomId, hostUserId |-> userId, localPlayer |-> 1]],
                   sent', accepted)
    /\ UNCHANGED <<nes, net, snes, client>>

\* room:join as a player, and the netplay:start the server replays.
OnJoinRoom(ws, roomId, accepted) ==
    /\ RoomJoin(ws, roomId, FALSE)
    /\ activeSession' = Deliver(activeSession, sent', accepted)
    /\ UNCHANGED <<nes, net, snes, client>>

\* onExit of the game view: setActiveSession(null)
OnExit(userId) ==
    /\ activeSession[userId] /= NoNetplay
    /\ activeSession' = [activeSession EXCEPT ![userId] = NoNetplay]
    /\ UNCHANGED <<nes, net, snes, client, serverVars>>

\* Two users and one room: they connect and disconnect, one makes the room,
\* they join, the host starts the lockstep session and hands the room over,
\* they leave the game.
PortsNext ==
    \/ AuthNext(Clients)
    \/ CloseNext(Clients)
    \/ RoomCreateNext(Clients)
    \/ RoomTransferHostNext(Clients)
    \/ \E ws \in Clients, roomId \in RoomIdInputs, accepted \in BOOLEAN :
           OnJoinRoom(ws, roomId, accepted)
    \/ \E ws \in Clients, roomId \in RoomIdInputs, accepted \in BOOLEAN :
           OnPlay(ws, roomId, PlayPayload, accepted)
    \/ \E ws \in Clients : OnExit(ProfileOf(ws))

SpecPorts == Init /\ [][PortsNext]_vars

\* A signaling client of either class, not connected yet.
ClientInit ==
    /\ ServerInit
    /\ nes = [p \in Elems(NesPeers) |-> Unmounted(0)]
    /\ net = [p \in Elems(NesPeers) |-> <<>>]
    /\ snes = SnesSetup(2)
    /\ client \in {NewClient(kind) : kind \in ClientKinds}
    /\ activeSession = NoActiveSession

ClientNext ==
    \/ ClientConnect
    \/ ClientRequest
    \/ \E requestId \in RequestIds, ok \in BOOLEAN : ServerResponse(requestId, ok)
    \/ \E msg \in client.wire : ClientOnMessage(msg)
    \/ \E requestId \in RequestIds : ClientTimeout(requestId)
    \/ ClientClose
    \/ ClientOnClose

SpecClient == ClientInit /\ [][ClientNext]_vars

\* Every timer that was set fires (setTimeout), and a response that reached
\* the client is handled.
SpecClientFair ==
    /\ SpecClient
    /\ \A requestId \in RequestIds : WF_vars(ClientTimeout(requestId))

\* A lockstep session of u1 and u2 was started; no engine is set up yet.
\* The members of the room are in its session: each got netplay:start from
\* the host.
LockstepSessions ==
    [u \in Users |->
        IF Includes(LockstepRoom.members, u)
        THEN NetplayConfig(NesRoom, LockstepRoom.hostUserId, u) ELSE NoNetplay]

LockstepInit == SessionInit /\ LockstepIdle /\ activeSession = LockstepSessions

SpecNes == LockstepInit /\ [][NesNext]_vars

\* Both peers' GameView effects have run once and their first inputs are
\* under way; from there on the peers play, with no effect run again.
RunInit ==
    /\ SessionInit
    /\ nes = [p \in Elems(NesPeers) |-> NesSetup(1, LockstepSessions[p].localPlayer)]
    /\ net = [p \in Elems(NesPeers) |-> NesSetupSends]
    /\ snes = SnesSetup(2)
    /\ client = NewClient("social")
    /\ activeSession = LockstepSessions

RunNext ==
    \/ \E p \in Elems(NesPeers) : NesKeyDown(p)
    \/ \E p \in Elems(NesPeers) : NesKeyUp(p)
    \/ \E p \in Elems(NesPeers) : NesTick(p)
    \/ \E p \in Elems(NesPeers) : NesRelay(p)

SpecNesRun == RunInit /\ [][RunNext]_vars

\* The start of a session: each peer's GameView effect runs once, at its own
\* time, and the peers play; an input that reaches a SocialClient with no
\* listener registered is dropped.
FirstMount(p) ==
    /\ nes[p].mounts = 0
    /\ NesMount(p)

StartNext ==
    \/ \E p \in Elems(NesPeers) : FirstMount(p)
    \/ NesKeyDown(NesPeers[1])
    \/ NesKeyUp(NesPeers[1])
    \/ \E p \in Elems(NesPeers) : NesTick(p)
    \/ \E p \in Elems(NesPeers) : NesRelay(p)

SpecStart == LockstepInit /\ [][StartNext]_vars

\* Frames of the long session.
PruneFrames == 242

\* Inputs of one peer that may be under way in the long session.
MaxInFlight == 2

\* The host's engine in a long session: it is set up, its first inputs are
\* under way; the guest is played by its inputs arriving.
PruneInit ==
    /\ SessionInit
    /\ nes = [p \in Elems(NesPeers) |->
                 IF p = NesPeers[1] THEN NesSetup(1, LockstepSessions[p].localPlayer)
                 ELSE Unmounted(0)]
    /\ net = [p \in Elems(NesPeers) |-> <<>>]
    /\ snes = SnesSetup(2)
    /\ client = NewClient("social")
    /\ activeSession = LockstepSessions

\* The frame of the guest's next input: the guest sends its frames in order.
NextRemoteFrame(e) ==
    IF DOMAIN e.remoteStateByFrame = {} THEN 0
    ELSE 1 + CHOOSE f \in DOMAIN e.remoteStateByFrame :
                 \A g \in DOMAIN e.remoteStateByFrame : g <= f

\* The next netplay:input of the guest reaches the host's listener.
PeerInput ==
    LET p == NesPeers[1]
        e == nes[p]
    IN  /\ e.mounted
        /\ NextRemoteFrame(e) <= e.currentFrame + 1
        /\ nes' = [nes EXCEPT ![p] =
                       OnNetplayInput(e, p, NesPeers[2], Input(NextRemoteFrame(e), 0))]
        /\ UNCHANGED <<net, snes, serverVars, client, activeSession>>

\* A tick of the host's loop, with few of its inputs still under way.
PruneTick ==
    /\ Len(net[NesPeers[1]]) <= MaxInFlight
    /\ NesTickUntil(NesPeers[1], PruneFrames)

PruneNext ==
    \/ PruneTick
    \/ PeerInput
    \/ NesRelay(NesPeers[1])

SpecPrune == PruneInit /\ [][PruneNext]_vars

SpecSnes == LockstepInit /\ [][SnesNext]_vars

\* ------------------------------------------------------------------------
\* Properties of the room registry
\* ------------------------------------------------------------------------

MemberSet(room) == Elems(room.members)

\* The events of `evs` with name ev that go to userId.
EventsTo(evs, userId, ev) == SelectSeq(evs, LAMBDA e : e.to = userId /\ e.ev = ev)

\* C1: the host of every room that exists is one of its members, and so no
\* room is without members.
C1_HostIsMember ==
    \A r \in DOMAIN rooms :
        /\ IsMember(rooms[r], rooms[r].hostUserId)
        /\ Len(rooms[r].members) > 0

\* The host's connection went away and the room went on under the member
\* that was next.
C1_HostFailedOver ==
    /\ response = NoResponse
    /\ socketUser["c1"] = None
    /\ \E r \in DOMAIN rooms :
          /\ rooms[r].hostUserId = "u2"
          /\ rooms[r].members = <<"u2">>
          /\ \E i \in 1..Len(sent) : sent[i].ev = "room:update" /\ sent[i].to = "u2"

\* C2: in every room the ready set and the spectators are subsets of the
\* members, and nobody is both spectator and ready.
C2_ReadyAndSpectators ==
    \A r \in DOMAIN rooms :
        /\ rooms[r].readyByUserId \subseteq MemberSet(rooms[r])
        /\ rooms[r].spectators \subseteq MemberSet(rooms[r])
        /\ rooms[r].spectators \cap rooms[r].readyByUserId = {}

\* The join of a member that is ready, with spectator = true, has left it
\* ready and spectator.
C2_ReadySpectator ==
    \E r \in DOMAIN rooms :
        /\ response.ok /\ response.ws = "c1"
        /\ "u1" \in rooms[r].spectators \cap rooms[r].readyByUserId

\* ------------------------------------------------------------------------
\* Properties of the invites
\* ------------------------------------------------------------------------

\* C6: an invite:respond of the addressee removes the invite, whatever the
\* answer and whether or not the accept succeeds; an invite that is gone
\* stays gone and every invite:respond for it fails with "Invite not found";
\* an invite:respond of anybody else fails and leaves the invite.
C6_InviteSingleUse ==
    [][/\ \A id \in InviteIds :
             (id <= invitesCreated /\ id \notin DOMAIN invites)
                 => id \notin DOMAIN invites'
       /\ \A ws \in Conns, id \in InviteIds, accept \in BOOLEAN :
             (response'.ws = ws /\ InviteRespond(ws, id, accept)) =>
                 IF id \notin DOMAIN invites
                 THEN ~response'.ok /\ response'.error = "Invite not found"
                 ELSE IF invites[id].toUserId = socketUser[ws]
                 THEN id \notin DOMAIN invites'
                 ELSE ~response'.ok /\ invites' = invites /\ rooms' = rooms]_vars

\* The invite was answered and a later invite:respond for it was refused.
C6_AnsweredTwice ==
    /\ invitesCreated = 1
    /\ 1 \notin DOMAIN invites
    /\ response.ws = "c2"
    /\ response.error = "Invite not found"

\* ------------------------------------------------------------------------
\* Properties of stream:start, room:close and room:kick
\* ------------------------------------------------------------------------

\* C7: a stream:start of the host with a gameId starts the stream session if
\* the room has exactly two members that are not spectators, and otherwise is
\* refused with the capacity message and leaves the room as it is.
C7_StreamNeedsTwoPlayers ==
    [][\A ws \in Conns, r \in RoomIdInputs, gameId \in GameIdInputs \ {""} :
          (/\ response'.ws = ws
           /\ r \in DOMAIN rooms
           /\ rooms[r].hostUserId = socketUser[ws]
           /\ StreamStart(ws, r, gameId))
          => IF Cardinality(MemberSet(rooms[r]) \ rooms[r].spectators) = 2
             THEN /\ response'.ok
                  /\ rooms'[r].session.mode = "stream"
                  /\ rooms'[r].session.gameId = gameId
             ELSE /\ ~response'.ok
                  /\ response'.error = "Streaming mode requires exactly 2 members"
                  /\ rooms' = rooms]_vars

\* A stream was started in a room of three, one of them a spectator.
C7_StreamWithSpectator ==
    \E r \in DOMAIN rooms :
        /\ rooms[r].session.mode = "stream"
        /\ Len(rooms[r].members) = 3
        /\ Cardinality(rooms[r].spectators) = 1
        /\ response.ok
        /\ \E i \in 1..Len(sent) : sent[i].ev = "stream:start"

\* C8: a room:close of the host deletes the room for good - room:state then
\* says "Room not found" - and sends room:closed once to each other member
\* and not to the host; a room:close of another member takes only that
\* member out of members, spectators and the ready set, and the room stays,
\* with a member and with its host.
C8_RoomClose ==
    [][/\ \A r \in RoomIdInputs :
             (\E i \in 1..roomsCreated : RoomCodes[i] = r) /\ r \notin DOMAIN rooms
                 => r \notin DOMAIN rooms'
       /\ \A ws \in Conns, r \in RoomIdInputs :
             (response'.ws = ws /\ r \notin DOMAIN rooms /\ RoomState(ws, r))
                 => ~response'.ok /\ response'.error = "Room not found"
       /\ \A ws \in Conns, r \in RoomIdInputs :
             (/\ response'.ws = ws
              /\ r \in DOMAIN rooms
              /\ IsMember(rooms[r], socketUser[ws])
              /\ RoomClose(ws, r))
             => LET actorId == socketUser[ws]
                    room    == rooms[r]
                IN  IF room.hostUserId = actorId
                    THEN /\ r \notin DOMAIN rooms'
                         /\ \A m \in MemberSet(room) \ {actorId} :
                               Len(EventsTo(sent', m, "room:closed")) = 1
                         /\ EventsTo(sent', actorId, "room:closed") = <<>>
                    ELSE /\ r \in DOMAIN rooms'
                         /\ rooms'[r] =
                               [room EXCEPT
                                   !.members = Without(room.members, actorId),
                                   !.spectators = room.spectators \ {actorId},
                                   !.readyByUserId = room.readyByUserId \ {actorId}]
                         /\ Len(rooms'[r].members) >= 1
                         /\ rooms'[r].hostUserId = room.hostUserId]_vars

\* The host closed a room of three.
C8_ClosedRoomOfThree ==
    /\ roomsCreated = 1
    /\ rooms = <<>>
    /\ response.ok
    /\ \E i, j \in 1..Len(sent) :
          /\ sent[i].ev = "room:closed"
          /\ sent[j].ev = "room:closed"
          /\ sent[i].to /= sent[j].to

\* C9: a room:kick that succeeds takes its target out of members, spectators
\* and the ready set, sends the target one room:kicked and neither
\* room:closed nor room:update; a room:kick whose target is its sender fails.
C9_RoomKick ==
    [][\A ws \in Conns, r \in RoomIdInputs, target \in Users :
          (response'.ws = ws /\ RoomKick(ws, r, target)) =>
              IF target = socketUser[ws]
              THEN ~response'.ok /\ rooms' = rooms
              ELSE response'.ok =>
                     /\ ~IsMember(rooms'[r], target)
                     /\ target \notin rooms'[r].spectators
                     /\ target \notin rooms'[r].readyByUserId
                     /\ Len(EventsTo(sent', target, "room:kicked")) = 1
                     /\ EventsTo(sent', target, "room:closed") = <<>>
                     /\ EventsTo(sent', target, "room:update") = <<>>]_vars

\* The host kicked a spectator and the third member got the room update.
C9_KickedSpectator ==
    \E r \in DOMAIN rooms :
        /\ response.ok
        /\ Len(rooms[r].members) = 2
        /\ sent /= <<>>
        /\ sent[1].ev = "room:kicked"
        /\ sent[1].who = rooms[r].hostUserId
        /\ \E i \in 1..Len(sent) : sent[i].ev = "room:update" /\ sent[i].to /= sent[1].who

\* ------------------------------------------------------------------------
\* Properties of the lock
\* ------------------------------------------------------------------------

\* What room:join does with a locked room: a member gets in again, anybody
\* else is refused with "Room is locked" and the room stays as it is.
LockedJoin ==
    \A ws \in Conns, r \in RoomIdInputs, sp \in BOOLEAN :
        (/\ response'.ws = ws
         /\ r \in DOMAIN rooms
         /\ rooms[r].locked
         /\ RoomJoin(ws, r, sp))
        => IF IsMember(rooms[r], socketUser[ws])
           THEN response'.ok /\ MemberSet(rooms'[r]) = MemberSet(rooms[r])
           ELSE ~response'.ok /\ response'.error = "Room is locked" /\ rooms' = rooms

\* The members of a locked room only get fewer.
LockedMembersShrink ==
    \A r \in DOMAIN rooms :
        (rooms[r].locked /\ r \in DOMAIN rooms')
            => MemberSet(rooms'[r]) \subseteq MemberSet(rooms[r])

\* The addressee of invite id, not a member of the invite's room, which is
\* locked, accepts on socket ws.
LockedAccept(ws, id) ==
    /\ response'.ws = ws
    /\ id \in DOMAIN invites
    /\ invites[id].toUserId = socketUser[ws]
    /\ invites[id].roomId \in DOMAIN rooms
    /\ rooms[invites[id].roomId].locked
    /\ ~IsMember(rooms[invites[id].roomId], socketUser[ws])
    /\ InviteRespond(ws, id, TRUE)

C3_StepGated ==
    [][\A p \in Elems(NesPeers) :
          (nes[p].mounted /\ nes'[p].mounted /\ NesTick(p)) =>
              LET e  == nes[p]
                  e2 == nes'[p]
              IN  /\ e2.currentFrame >= e.currentFrame
                  /\ \A f \in e.currentFrame..(e2.currentFrame - 1) :
                        /\ f \in DOMAIN e2.localStateByFrame
                        /\ f \in DOMAIN e.remoteStateByFrame
                        /\ f \in DOMAIN e2.applied
                  /\ (\/ e.currentFrame \notin DOMAIN e2.localStateByFrame
                      \/ e.currentFrame \notin DOMAIN e.remoteStateByFrame)
                     => /\ e2.currentFrame = e.currentFrame
                        /\ e2.pad = e.pad
                        /\ e2.applied = e.applied
                        /\ e2.previousLocalAppliedState = e.previousLocalAppliedState
                        /\ e2.previousRemoteAppliedState = e.previousRemoteAppliedState]_vars

\* The guest's loop ran at frame 1 and did not step: the host's bitmask for
\* frame 1 is not there.
C3_Stalled ==
    LET e == nes[NesPeers[2]] IN
    /\ e.mounted
    /\ e.currentFrame = 1
    /\ 1 \notin DOMAIN e.remoteStateByFrame
    /\ (1 + LOCKSTEP_INPUT_DELAY_FRAMES) \in DOMAIN e.localStateByFrame
    /\ 0 \in DOMAIN e.applied

\* C4: the peers of a session applied the same pair of bitmasks at every
\* frame both have stepped.
C4_SameInputsPerFrame ==
    (nes[NesPeers[1]].mounted /\ nes[NesPeers[2]].mounted)
        => \A f \in DOMAIN nes[NesPeers[1]].applied \cap DOMAIN nes[NesPeers[2]].applied :
              nes[NesPeers[1]].applied[f] = nes[NesPeers[2]].applied[f]

\* C5: the SNES frame counter goes past frame f only with a bitmask for f in
\* the local and in the remote buffer.
C5_SnesStepGated ==
    [][snes'.currentFrame /= snes.currentFrame
          => /\ snes.currentFrame \in DOMAIN snes.localStateByFrame
             /\ snes.currentFrame \in DOMAIN snes.remoteStateByFrame]_vars

\* ------------------------------------------------------------------------
\* Properties of a streaming room
\* ------------------------------------------------------------------------

\* Socket ws asks to join room r, which streams and holds two or more
\* players; the asking user is no member and does not ask to watch.
StreamFullJoin(ws, r) ==
    /\ response'.ws = ws
    /\ r \in DOMAIN rooms
    /\ rooms[r].session.mode = "stream"
    /\ ~IsMember(rooms[r], socketUser[ws])
    /\ Len(streamPlayers(rooms[r])) >= 2
    /\ RoomJoin(ws, r, FALSE)

\* room:join never answers "Streaming room is full" to a user who asks to
\* watch or who is a member already.
StreamRuleExempt ==
    \A ws \in Conns, r \in RoomIdInputs, sp \in BOOLEAN :
        (/\ response'.ws = ws
         /\ r \in DOMAIN rooms
         /\ sp \/ IsMember(rooms[r], socketUser[ws])
         /\ RoomJoin(ws, r, sp))
        => response'.error /= "Streaming room is full"

\* C11 as stated: a streaming room that holds its two players refuses the
\* room:join of a non-member who does not ask to watch with "Streaming room
\* is full" and stays as it is; a join to watch and a member's join are never
\* refused with that error.
C11_StreamFullAsStated ==
    [][/\ StreamRuleExempt
       /\ \A ws \in Conns, r \in RoomIdInputs :
             StreamFullJoin(ws, r)
                 => /\ ~response'.ok
                    /\ response'.error = "Streaming room is full"
                    /\ rooms' = rooms]_vars

\* C11, amended: as above, but the refusal reads "Room is locked" when the
\* streaming room is locked, and "Streaming room is full" otherwise.
C11_StreamFull ==
    [][/\ StreamRuleExempt
       /\ \A ws \in Conns, r \in RoomIdInputs :
             StreamFullJoin(ws, r)
                 => /\ ~response'.ok
                    /\ response'.error = IF rooms[r].locked THEN "Room is locked"
                                         ELSE "Streaming room is full"
                    /\ rooms' = rooms]_vars

\* A third user was refused as a player by an unlocked streaming room of two.
C11_ThirdPlayerRefused ==
    /\ ~response.ok
    /\ response.ws = "c3"
    /\ response.error = "Streaming room is full"
    /\ \E r \in DOMAIN rooms :
          /\ ~rooms[r].locked
          /\ rooms[r].session.mode = "stream"
          /\ Len(streamPlayers(rooms[r])) = 2
          /\ ~IsMember(rooms[r], "u3")

\* ------------------------------------------------------------------------
\* Properties of accepting an invite
\* ------------------------------------------------------------------------

\* room:join lets actorId into the room as a player.
PlayerJoinSucceeds(room, actorId) ==
    ~JoinLocked(room, actorId) /\ ~JoinStreamFull(room, actorId, FALSE)

\* C12: an accepting invite:respond for a room that exists succeeds exactly
\* when a room:join of the same user as a player would succeed in that state;
\* when it succeeds the actor is a member and the sender is sent
\* invite:accepted with the room id on each of its open sockets.
C12_AcceptAsJoin ==
    [][\A ws \in Conns, id \in InviteIds :
          (/\ response'.ws = ws
           /\ id \in DOMAIN invites
           /\ invites[id].toUserId = socketUser[ws]
           /\ invites[id].roomId \in DOMAIN rooms
           /\ InviteRespond(ws, id, TRUE))
          => LET r == invites[id].roomId IN
             /\ response'.ok <=> PlayerJoinSucceeds(rooms[r], socketUser[ws])
             /\ response'.ok =>
                   /\ IsMember(rooms'[r], socketUser[ws])
                   /\ EventsTo(sent', invites[id].fromUserId, "invite:accepted")
                          = sendEventToUser(Now, invites[id].fromUserId,
                                            "invite:accepted", r, socketUser[ws])]_vars

\* ------------------------------------------------------------------------
\* Properties of a closing connection
\* ------------------------------------------------------------------------

\* The events in evs that tell userId about room roomId's state.
RoomUpdatesTo(evs, userId, roomId) ==
    SelectSeq(evs, LAMBDA e : e.to = userId /\ e.ev = "room:update" /\ e.room = roomId)

\* C13: when a socket bound to user u closes, every room that held u loses u
\* from its members, spectators and ready set; a room u was the host of goes
\* to the first member that remains; a room left without members is deleted
\* and no event names it; every other room that held u sends one room:update
\* to each member that remains and none to u; the rooms that did not hold u
\* stay as they are.
C13_CloseLeavesRooms ==
    [][\A ws \in Conns :
          (/\ socketUser[ws] /= None
           /\ ConnClose(ws))
          => LET u == socketUser[ws] IN
             \A r \in DOMAIN rooms :
                LET room == rooms[r]
                    rest == Without(room.members, u)
                IN  IF ~IsMember(room, u)
                    THEN r \in DOMAIN rooms' /\ rooms'[r] = room
                    ELSE IF rest = <<>>
                    THEN /\ r \notin DOMAIN rooms'
                         /\ \A i \in 1..Len(sent') : sent'[i].room /= r
                    ELSE /\ r \in DOMAIN rooms'
                         /\ rooms'[r].members = rest
                         /\ rooms'[r].spectators = room.spectators \ {u}
                         /\ rooms'[r].readyByUserId = room.readyByUserId \ {u}
                         /\ rooms'[r].hostUserId =
                               IF room.hostUserId = u THEN rest[1] ELSE room.hostUserId
                         /\ \A m \in Elems(rest) : Len(RoomUpdatesTo(sent', m, r)) = 1
                         /\ RoomUpdatesTo(sent', u, r) = <<>>]_vars

\* A socket closed whose user was the only member of the second room and a
\* member of the first, which two other users, one watching and one ready,
\* stay in.
C13_LeftBothRooms ==
    /\ response = NoResponse
    /\ roomsCreated = 2
    /\ DOMAIN rooms = {RoomCodes[1]}
    /\ \E c \in Conns :
          /\ socketUser[c] = None
          /\ LET room == rooms[RoomCodes[1]] IN
             /\ Len(room.members) = 2
             /\ ~IsMember(room, ProfileOf(c))
             /\ room.hostUserId = room.members[1]
             /\ room.spectators /= {}
             /\ room.readyByUserId /= {}
             /\ \A m \in Elems(room.members) :
                   Len(RoomUpdatesTo(sent, m, RoomCodes[1])) = 1

\* ------------------------------------------------------------------------
\* Properties of the host-only requests
\* ------------------------------------------------------------------------

OnlyHostErrors ==
    {"Only host can change lock", "Only host can kick", "Only host can transfer host",
     "Only host can start netplay", "Only host can start stream",
     "Only host can send room invites"}

\* The handler that answers socket ws was asked about room r by a user who is
\* not r's host.
ByNonHost(ws, r) ==
    /\ response'.ws = ws
    /\ r \in DOMAIN rooms
    /\ socketUser[ws] /= None
    /\ rooms[r].hostUserId /= socketUser[ws]

\* The handler that answers socket ws was asked about room r by r's host.
ByHost(ws, r) ==
    /\ response'.ws = ws
    /\ r \in DOMAIN rooms
    /\ rooms[r].hostUserId = socketUser[ws]

\* The request failed and changed no room, no session and no invite.
Refused ==
    /\ ~response'.ok
    /\ rooms' = rooms
    /\ invites' = invites
    /\ invitesCreated' = invitesCreated

\* What room:lock, room:kick, room:transferHost, netplay:start and
\* stream:start do for a user who is not the host, and that none of the six
\* host-only requests answers the host with an "Only host ..." error.
HostOnlyRoomRequests ==
    \A ws \in Conns, r \in RoomIdInputs :
        /\ \A locked \in BOOLEAN :
              /\ (ByNonHost(ws, r) /\ RoomLock(ws, r, locked))
                     => Refused /\ response'.error = "Only host can change lock"
              /\ (ByHost(ws, r) /\ RoomLock(ws, r, locked))
                     => response'.error \notin OnlyHostErrors
        /\ \A target \in {""} \cup Users :
              /\ (ByNonHost(ws, r) /\ RoomKick(ws, r, target))
                     => Refused /\ response'.error = "Only host can kick"
              /\ (ByHost(ws, r) /\ RoomKick(ws, r, target))
                     => response'.error \notin OnlyHostErrors
              /\ (ByNonHost(ws, r) /\ RoomTransferHost(ws, r, target))
                     => Refused /\ response'.error = "Only host can transfer host"
              /\ (ByHost(ws, r) /\ RoomTransferHost(ws, r, target))
                     => response'.error \notin OnlyHostErrors
        /\ \A p \in AllNetplayPayloads :
              /\ (ByNonHost(ws, r) /\ NetplayStart(ws, r, p))
                     => Refused /\ response'.error = "Only host can start netplay"
              /\ (ByHost(ws, r) /\ NetplayStart(ws, r, p))
                     => response'.error \notin OnlyHostErrors
        /\ \A gameId \in GameIdInputs :
              /\ (ByNonHost(ws, r) /\ StreamStart(ws, r, gameId))
                     => Refused /\ response'.error = "Only host can start stream"
              /\ (ByHost(ws, r) /\ StreamStart(ws, r, gameId))
                     => response'.error \notin OnlyHostErrors
        /\ \A friend \in Users, gameId \in GameIdInputs :
              (ByHost(ws, r) /\ InviteSend(ws, friend, r, gameId))
                  => response'.error \notin OnlyHostErrors

\* C14 as stated: each of the six host-only requests, issued with a complete
\* payload by a user who is not the room's host, fails with its "Only host
\* ..." error and changes no room, session or invite; the host is never
\* answered with such an error.
C14_HostOnlyAsStated ==
    [][/\ HostOnlyRoomRequests
       /\ \A ws \in Conns, r \in RoomIdInputs, friend \in Users,
             gameId \in GameIdInputs \ {""} :
             (ByNonHost(ws, r) /\ InviteSend(ws, friend, r, gameId))
                 => Refused /\ response'.error = "Only host can send room invites"]_vars

\* C14, amended: as above, but invite:send of a user who is not the host
\* fails with "Only host can send room invites" only when its payload is
\* complete and its target is online and a friend of the actor; otherwise it
\* fails with the error of the check that comes first.
C14_HostOnly ==
    [][/\ HostOnlyRoomRequests
       /\ \A ws \in Conns, r \in RoomIdInputs, friend \in Users, gameId \in GameIdInputs :
             (ByNonHost(ws, r) /\ InviteSend(ws, friend, r, gameId))
                 => /\ Refused
                    /\ response'.error =
                          IF gameId = ""
                              THEN "friendUserId, roomId and gameId are required"
                          ELSE IF ~isOnline(Now, friend) THEN "Friend is offline"
                          ELSE IF ~areFriends(Now, socketUser[ws], friend)
                              THEN "User is not in your friends list"
                          ELSE "Only host can send room invites"]_vars

\* The user who made another member the host was refused a lock change.
C14_PreviousHostRefused ==
    /\ ~response.ok
    /\ response.error = "Only host can change lock"
    /\ \E r \in DOMAIN rooms :
          /\ socketUser[response.ws] = rooms[r].members[1]
          /\ rooms[r].hostUserId /= rooms[r].members[1]

\* ------------------------------------------------------------------------
\* Properties of netplay:start
\* ------------------------------------------------------------------------

\* Every field that the netplay:start payload p has to carry is there.
NetplayPayloadComplete(p) ==
    /\ Trim(p.gameId) /= ""
    /\ p.romBase64 /= ""
    /\ Trim(p.emulatorId) /= ""
    /\ Trim(p.romHash) /= ""
    /\ Trim(p.protocolVersion) /= ""
    /\ Trim(p.coreVersion) /= ""

\* C15: netplay:start for a room that exists succeeds exactly when the actor
\* is the room's host and a member and gameId, romBase64, emulatorId, romHash,
\* protocolVersion and coreVersion are all non-empty; when it fails it installs
\* no session and sends no event.
C15_NetplayStartValidates ==
    [][\A ws \in Conns, r \in RoomIdInputs, p \in AllNetplayPayloads :
          (/\ response'.ws = ws
           /\ r \in DOMAIN rooms
           /\ NetplayStart(ws, r, p))
          => /\ response'.ok <=>
                   /\ rooms[r].hostUserId = socketUser[ws]
                   /\ IsMember(rooms[r], socketUser[ws])
                   /\ NetplayPayloadComplete(p)
             /\ ~response'.ok => rooms' = rooms /\ sent' = <<>>]_vars

\* The netplay:start events in evs for userId.
NetplayStartsTo(evs, userId) == EventsTo(evs, userId, "netplay:start")

\* C16: a successful netplay:start sends every member of the room, the host
\* included, one netplay:start event that carries the request's rom and the
\* room's host, and installs a lockstep session with that rom; only a
\* successful netplay:start or stream:start changes a room's session; a
\* room:join that makes a user a member of a room with a lockstep session
\* sends that user one netplay:start event with the session's rom.
C16_NetplayStartReachesMembers ==
    [][/\ \A ws \in Conns, r \in RoomIdInputs, p \in AllNetplayPayloads :
             (/\ response'.ws = ws
              /\ response'.ok
              /\ r \in DOMAIN rooms
              /\ NetplayStart(ws, r, p))
             => /\ rooms'[r].session.mode = "lockstep"
                /\ rooms'[r].session.romBase64 = p.romBase64
                /\ \A m \in MemberSet(rooms[r]) :
                      LET evs == NetplayStartsTo(sent', m) IN
                      /\ Len(evs) = 1
                      /\ evs[1].room = r
                      /\ evs[1].data = p.romBase64
                      /\ evs[1].who = rooms[r].hostUserId
       /\ \A r \in DOMAIN rooms :
             (r \in DOMAIN rooms' /\ rooms'[r].session /= rooms[r].session)
                 => response'.ok /\ response'.payload = [started |-> TRUE]
       /\ \A ws \in Conns, r \in RoomIdInputs, sp \in BOOLEAN :
             (/\ response'.ws = ws
              /\ response'.ok
              /\ r \in DOMAIN rooms
              /\ rooms[r].session.mode = "lockstep"
              /\ ~IsMember(rooms[r], socketUser[ws])
              /\ RoomJoin(ws, r, sp))
             => LET evs == NetplayStartsTo(sent', socketUser[ws]) IN
                /\ IsMember(rooms'[r], socketUser[ws])
                /\ Len(evs) = 1
                /\ evs[1].room = r
                /\ evs[1].data = rooms[r].session.romBase64]_vars

\* A user joined a room whose lockstep session runs the second rom and was
\* sent that rom.
C16_LateJoinerGotRom ==
    /\ response.ok
    /\ response.ws = "c2"
    /\ \E r \in DOMAIN rooms :
          /\ rooms[r].session.mode = "lockstep"
          /\ rooms[r].session.romBase64 = "rom2"
          /\ rooms[r].members = <<"u1", "u2">>
          /\ NetplayStartsTo(sent, "u1") = <<>>
          /\ Len(NetplayStartsTo(sent, "u2")) = 1
          /\ NetplayStartsTo(sent, "u2")[1].data = "rom2"

\* ------------------------------------------------------------------------
\* Properties of the room chat
\* ------------------------------------------------------------------------

\* arr holds the last elements of full, in their order.
IsTailOf(arr, full) ==
    /\ Len(arr) <= Len(full)
    /\ arr = SubSeq(full, Len(full) - Len(arr) + 1, Len(full))

\* C17: a room's chat log never holds more than 200 messages; a sent message
\* is the last of the log, before it come the messages the log held, without
\* the oldest once they are more than 199; room:chat:history answers with the
\* last messages of the log in their order, all of them up to 100.
C17_ChatBounded ==
    [][/\ \A r \in DOMAIN rooms' : Len(rooms'[r].chat) <= 200
       /\ \A ws \in Conns, r \in RoomIdInputs, text \in ChatTextInputs :
             (/\ response'.ws = ws
              /\ response'.ok
              /\ r \in DOMAIN rooms
              /\ RoomChatSend(ws, r, text))
             => LET old == rooms[r].chat
                    new == rooms'[r].chat
                IN  /\ new[Len(new)].text = Trim(text)
                    /\ new[Len(new)].fromUserId = socketUser[ws]
                    /\ \A i \in 1..Len(old) : new[Len(new)].id /= old[i].id
                    /\ Len(new) = IF Len(old) < 200 THEN Len(old) + 1 ELSE 200
                    /\ IsTailOf(SubSeq(new, 1, Len(new) - 1), old)
       /\ \A ws \in Conns, r \in RoomIdInputs :
             (/\ response'.ws = ws
              /\ response'.ok
              /\ r \in DOMAIN rooms
              /\ RoomChatHistory(ws, r))
             => LET log == rooms[r].chat
                    got == response'.payload.messages
                IN  /\ Len(got) = IF Len(log) < 100 THEN Len(log) ELSE 100
                    /\ IsTailOf(got, log)]_vars

\* The history of a log that lost its two oldest messages was read.
C17_HistoryOfFullLog ==
    /\ response.ok
    /\ "messages" \in DOMAIN response.payload
    /\ Len(response.payload.messages) = 100
    /\ response.payload.messages[100].id = 202
    /\ \E r \in DOMAIN rooms :
          /\ Len(rooms[r].chat) = 200
          /\ rooms[r].chat[1].id = 3

\* ------------------------------------------------------------------------
\* Properties of the connection registry
\* ------------------------------------------------------------------------

\* The users whose connection set holds socket ws.
UsersHolding(ws) == {u \in DOMAIN socketsByUserId : ws \in socketsByUserId[u]}

\* C18: a socket is in the connection set of the user it authenticated as
\* last and in no other; a socket that is bound to no user, one that closed
\* included, is in no connection set.
C18_ConnectionBindsOneUser ==
    \A ws \in Conns :
        UsersHolding(ws) = IF socketUser[ws] = None THEN {} ELSE {socketUser[ws]}

\* ------------------------------------------------------------------------
\* Properties of the friend graph
\* ------------------------------------------------------------------------

\* The friend relation is symmetric and no user is its own friend or twice
\* the friend of another.
FriendGraphOk ==
    \A a \in DOMAIN users :
        LET list == users[a].friends IN
        /\ ~Includes(list, a)
        /\ \A i, j \in 1..Len(list) : list[i] = list[j] => i = j
        /\ \A b \in Elems(list) : b \in DOMAIN users /\ Includes(users[b].friends, a)

\* The friend lists stay as they are.
FriendsUnchanged ==
    \A a \in DOMAIN users :
        a \in DOMAIN users' /\ users'[a].friends = users[a].friends

\* C19: the friend relation is always symmetric, without self-edges and
\* without duplicates; a friends:add that succeeds for two users who are
\* friends already leaves the graph as it is; a friends:add with the actor's
\* own code, or with a code that no user has, fails and leaves the graph as
\* it is.
C19_FriendGraph ==
    /\ []FriendGraphOk
    /\ [][\A ws \in Conns, code \in FriendCodeInputs :
             (/\ response'.ws = ws
              /\ socketUser[ws] /= None
              /\ FriendsAdd(ws, code))
             => LET actorId == socketUser[ws]
                    own     == Upper(Trim(code)) = Upper(users[actorId].friendCode)
                    unknown == \A u \in DOMAIN users :
                                  Upper(users[u].friendCode) /= Upper(Trim(code))
                IN  /\ (own \/ unknown) => ~response'.ok /\ FriendsUnchanged
                    /\ (response'.ok
                           /\ \E u \in DOMAIN users :
                                 /\ Upper(users[u].friendCode) = Upper(Trim(code))
                                 /\ areFriends(Now, actorId, u)
                                 /\ \A v \in DOMAIN users \ {u} :
                                       Upper(users[v].friendCode) /= Upper(Trim(code)))
                          => FriendsUnchanged]_vars

\* ------------------------------------------------------------------------
\* Properties of invite:send
\* ------------------------------------------------------------------------

\* C20: invite:send succeeds only if the target has a bound connection and is
\* in the actor's friend list and the room exists and has the actor as its
\* host and as a member, and with a complete payload it then does succeed;
\* when it succeeds it adds one invite, from the actor to the target for that
\* room, and sends invite:received to the target and nothing else; when it
\* fails it adds no invite and sends nothing.
C20_InviteSendGuarded ==
    [][\A ws \in Conns, friend \in Users, r \in RoomIdInputs, gameId \in GameIdInputs :
          (/\ response'.ws = ws
           /\ socketUser[ws] /= None
           /\ InviteSend(ws, friend, r, gameId))
          => LET actorId == socketUser[ws]
                 allowed ==
                     /\ socketsByUserId[friend] /= {}
                     /\ Includes(users[actorId].friends, friend)
                     /\ r \in DOMAIN rooms
                     /\ rooms[r].hostUserId = actorId
                     /\ IsMember(rooms[r], actorId)
                 added   == DOMAIN invites' \ DOMAIN invites
             IN  /\ response'.ok => allowed
                 /\ (allowed /\ gameId /= "") => response'.ok
                 /\ response'.ok =>
                       /\ Cardinality(added) = 1
                       /\ \A id \in DOMAIN invites :
                             id \in DOMAIN invites' /\ invites'[id] = invites[id]
                       /\ \A id \in added :
                             invites'[id] = [fromUserId |-> actorId, toUserId |-> friend,
                                             roomId |-> r, gameId |-> gameId]
                       /\ sent' /= <<>>
                       /\ \A i \in 1..Len(sent') :
                             /\ sent'[i].ev = "invite:received"
                             /\ sent'[i].to = friend
                             /\ sent'[i].room = r
                             /\ sent'[i].who = actorId
                 /\ ~response'.ok => invites' = invites /\ sent' = <<>>]_vars

\* The host of a room of two invited a third user, who was told so.
C20_ThirdUserInvited ==
    /\ response.ok
    /\ "inviteId" \in DOMAIN response.payload
    /\ Len(sent) = 1
    /\ sent[1].ev = "invite:received"
    /\ \E id \in DOMAIN invites :
          /\ invites[id].toUserId = sent[1].to
          /\ invites[id].fromUserId = socketUser[response.ws]
          /\ invites[id].roomId \in DOMAIN rooms
          /\ Len(rooms[invites[id].roomId].members) = 2
          /\ ~IsMember(rooms[invites[id].roomId], invites[id].toUserId)

\* ------------------------------------------------------------------------
\* Requests and responses
\* ------------------------------------------------------------------------

\* A request of ws, with the requestId its client gave it, was handled.
Requested(ws) ==
    \/ \E userId \in {"", ProfileOf(ws)} : Auth(ws, userId, FriendCodeOf(ProfileOf(ws)))
    \/ NotAuthenticated(ws)
    \/ FriendsList(ws)
    \/ \E gameId \in GameIdInputs : RoomCreate(ws, gameId)
    \/ \E r \in RoomIdInputs : RoomJoin(ws, r, FALSE) \/ RoomState(ws, r)
    \/ \E r \in RoomIdInputs, p \in NetplayPayloads : NetplayStart(ws, r, p)
    \/ \E r \in RoomIdInputs, gameId \in GameIdInputs : StreamStart(ws, r, gameId)

\* A relay message of ws that carries requestId (None: carries none) was handled.
RelayHandled(ws, requestId) ==
    \E r \in RoomIdInputs, flag \in BOOLEAN :
       \/ NetplayInput(ws, requestId, r, flag)
       \/ \E target \in {""} \cup Users : StreamSignal(ws, requestId, r, target, flag)
       \/ StreamInput(ws, requestId, r, flag)
       \/ RoomPause(ws, requestId, r, flag)

Registered == 1..client.issued

\* An entry is in the map until its resolve or reject is called, and that
\* is called once.
SettledOnce ==
    \A r \in RequestIds :
       /\ Len(client.calls[r]) <= 1
       /\ r \in client.pending <=> (r \in Registered /\ client.calls[r] = <<>>)

\* What settles an entry: the response with its requestId (ok: resolve,
\* otherwise reject), its own timeout, or the rejection of all entries.
SettledByItsCause ==
    \A r \in RequestIds :
       client'.calls[r] /= client.calls[r] =>
          LET how == client'.calls[r][Len(client'.calls[r])]
          IN  /\ how = "resolved" =>
                    \E msg \in client.wire :
                       msg.requestId = r /\ msg.ok /\ ClientOnMessage(msg)
              /\ how = "rejected" =>
                    \E msg \in client.wire :
                       msg.requestId = r /\ ~msg.ok /\ ClientOnMessage(msg)
              /\ how = "timeout" => ClientTimeout(r)
              /\ how = "closed" => client'.pending = {}

C23_NoMessageTerminates ==
    [][\A ws \in Clients, raw \in RawMessages :
          OnMessage(ws, raw)
             => /\ response'.ws = ws
                /\ ~response'.ok
                /\ raw = "unparseable" => response'.requestId = None
                /\ closedSockets' = closedSockets
                /\ UNCHANGED registries]_vars

\* ------------------------------------------------------------------------
\* room:update
\* ------------------------------------------------------------------------

\* Room r is there before and after the step, and what its members see of
\* it, or its session, is not what it was.
VisibleChange(r) ==
    /\ rooms' /= rooms
    /\ r \in DOMAIN rooms
    /\ r \in DOMAIN rooms'
    /\ \/ roomStatePayload(r, rooms'[r]) /= roomStatePayload(r, rooms[r])
       \/ rooms'[r].session /= rooms[r].session

\* C24: a step that changes what the members of a room see of it, or its
\* session, sends each member the room has afterwards one room:update, which
\* carries the room's state as it is afterwards; room:transferHost to the
\* host itself sends nothing.
C24_OneRoomUpdate ==
    [][/\ \A r \in RoomIdInputs :
             VisibleChange(r) =>
                \A m \in Elems(rooms'[r].members) :
                   LET evs == RoomUpdatesTo(sent', m, r)
                   IN  /\ Len(evs) = 1
                       /\ evs[1].data = roomStatePayload(r, rooms'[r])
       /\ \/ sent' = <<>> /\ rooms' = rooms
          \/ \A ws \in Clients, r \in RoomIdInputs :
                ~(/\ response'.ws = ws
                  /\ response'.ok
                  /\ socketUser[ws] /= None
                  /\ RoomTransferHost(ws, r, socketUser[ws]))]_vars

\* The host gave the room to the other member, and both were told who the
\* host is now.
C24_HostTransferred ==
    /\ response.ok
    /\ socketUser[response.ws] = "u1"
    /\ RoomCodes[1] \in DOMAIN rooms
    /\ rooms[RoomCodes[1]].members = <<"u1", "u2">>
    /\ rooms[RoomCodes[1]].hostUserId = "u2"
    /\ rooms[RoomCodes[1]].readyByUserId = {}
    /\ ~rooms[RoomCodes[1]].locked
    /\ \A m \in {"u1", "u2"} :
          /\ Len(RoomUpdatesTo(sent, m, RoomCodes[1])) = 1
          /\ RoomUpdatesTo(sent, m, RoomCodes[1])[1].data.hostUserId = "u2"

\* ------------------------------------------------------------------------
\* Relays
\* ------------------------------------------------------------------------

RelayEvents == {"netplay:input", "stream:signal", "stream:input", "room:pause"}

\* The users the step sent a relayed event to.
RelayedTo == {sent'[i].to : i \in {j \in 1..Len(sent') : sent'[j].ev \in RelayEvents}}

\* A step that accepted a relay message: no error was answered, and nothing
\* but relayed events was sent.
RelayAccepted ==
    /\ response'.error = ""
    /\ rooms' = rooms
    /\ \A i \in 1..Len(sent') : sent'[i].ev \in RelayEvents

\* Every relayed event names a room and a sender who is a member of it, and
\* goes to a member of that room; a stream:input goes to the room's host.
\* toSender: a relayed event may go to its sender.
RelayedToMembers(toSender) ==
    \A i \in 1..Len(sent') :
       sent'[i].ev \in RelayEvents =>
          LET e == sent'[i] IN
          /\ e.room \in DOMAIN rooms
          /\ IsMember(rooms[e.room], e.who)
          /\ IsMember(rooms[e.room], e.to)
          /\ \E ws \in Conns : socketUser[ws] = e.who /\ response'.ws \in {ws, None}
          /\ e.ev = "stream:input" => e.to = rooms[e.room].hostUserId
          /\ e.ev /= "stream:signal" => e.to /= e.who
          /\ toSender \/ e.to /= e.who

\* An accepted relay goes to those the message is for: netplay:input and
\* room:pause to every member but the sender, stream:input to the host,
\* stream:signal to its target.
RelayedToAll ==
    RelayAccepted =>
       \A ws \in Conns, r \in RoomIdInputs :
          \A requestId \in RelayRequestIds(ws) :
             LET actorId == socketUser[ws]
                 others  == Elems(rooms[r].members) \ {actorId}
             IN  /\ NetplayInput(ws, requestId, r, TRUE) \/ RoomPause(ws, requestId, r, TRUE)
                       => RelayedTo = others
                 /\ StreamInput(ws, requestId, r, TRUE)
                       => RelayedTo = {rooms[r].hostUserId}
                 /\ \A target \in Users :
                       StreamSignal(ws, requestId, r, target, TRUE)
                          => RelayedTo = {target}

\* C25 as stated: no relayed event goes back to its sender.
C25_RelayAsStated == [][RelayedToMembers(FALSE) /\ RelayedToAll]_vars

\* C25: a relayed event goes from a member of the named room to members of
\* it only: netplay:input and room:pause to every member but the sender,
\* stream:input to the host only, stream:signal to its target only (which is
\* the sender where the sender names itself); a message of a sender who is no
\* member is relayed to nobody.
C25_Relay == [][RelayedToMembers(TRUE) /\ RelayedToAll]_vars

\* A room:pause of one of three members went to the two others.
C25_PausedForTwo ==
    /\ Len(sent) = 2
    /\ \A i \in 1..2 : sent[i].ev = "room:pause" /\ sent[i].who = "u2"
    /\ {sent[i].to : i \in 1..2} = {"u1", "u3"}

\* What a relay handler answers where the room's session does not allow the
\* relay.
SessionErrors ==
    {"Netplay not started", "Room is in streaming mode", "Streaming mode is not active",
     "Session is not active", "Host should not send stream input"}

\* C29: a netplay:input event is sent only for a room whose session is a
\* lockstep session, a stream:input event only for a room whose session is a
\* stream session and only from a member who is not its host, a room:pause
\* event only for a room that has a session; a relay message that is accepted
\* found the room so; a message that is answered with an error is moved on to
\* nobody and leaves nothing behind that could be delivered later.
C29_RelayNeedsSession ==
    [][/\ \A i \in 1..Len(sent') :
             LET e == sent'[i] IN
             /\ e.ev = "netplay:input" => rooms[e.room].session.mode = "lockstep"
             /\ e.ev = "stream:input" => /\ rooms[e.room].session.mode = "stream"
                                          /\ e.who /= rooms[e.room].hostUserId
                                          /\ IsMember(rooms[e.room], e.who)
             /\ e.ev = "room:pause" => rooms[e.room].session.mode \in {"lockstep", "stream"}
       /\ RelayAccepted =>
             \A ws \in Conns, r \in RoomIdInputs :
                \A requestId \in RelayRequestIds(ws) :
                   /\ NetplayInput(ws, requestId, r, TRUE)
                         => rooms[r].session.mode = "lockstep"
                   /\ StreamInput(ws, requestId, r, TRUE)
                         => /\ rooms[r].session.mode = "stream"
                            /\ socketUser[ws] /= rooms[r].hostUserId
                   /\ RoomPause(ws, requestId, r, TRUE)
                         => rooms[r].session /= NoSession
       /\ response'.error \in SessionErrors
             => ~response'.ok /\ sent' = <<>> /\ UNCHANGED registries]_vars

\* A netplay:input for a room that streams was refused.
C29_InputWhileStreaming ==
    /\ response.error = "Room is in streaming mode"
    /\ sent = <<>>
    /\ rooms[RoomCodes[1]].session.mode = "stream"
    /\ Len(rooms[RoomCodes[1]].members) = 3

\* ------------------------------------------------------------------------
\* Teardown of the lockstep view
\* ------------------------------------------------------------------------

\* After the clean-up the listener does nothing: a netplay:input that arrives
\* at an unmounted view leaves its buffers and its frame counter alone.
DetachedAfterTeardown ==
    [][\A p \in Elems(NesPeers) :
          (~nes[p].mounted /\ ~nes'[p].mounted) => nes'[p] = nes[p]]_vars

\* C26: on teardown the lockstep engine transmits a final input update to the
\* peer (and detaches its remote-input listener, which DetachedAfterTeardown
\* states): the clean-up puts one more netplay:input under way.
C26_TeardownFlushes ==
    [][\A p \in Elems(NesPeers) :
          (nes[p].mounted /\ ~nes'[p].mounted) =>
              Len(net'[p]) = Len(net[p]) + 1]_vars

\* ------------------------------------------------------------------------
\* Presence
\* ------------------------------------------------------------------------

\* An open socket is in the connection set of userId.
OpenBound(socks, closed, userId) ==
    \E ws \in Conns : ws \in socks[userId] /\ ws \notin closed

OnlineBefore(userId) == OpenBound(socketsByUserId, closedSockets, userId)

OnlineAfter(userId) == OpenBound(socketsByUserId', closedSockets', userId)

\* Every open socket of userId got a presence:update of who with this value.
PresenceSent(userId, who, online) ==
    \A ws \in Conns :
        (ws \in socketsByUserId'[userId] /\ ws \notin closedSockets') =>
            \E i \in DOMAIN sent' :
                /\ sent'[i].ev = "presence:update"
                /\ sent'[i].ws = ws
                /\ sent'[i].who = who
                /\ sent'[i].data = online

\* Every open socket of userId got a friends:list with friend `other` online.
FriendOnlineSent(userId, other) ==
    \A ws \in Conns :
        (ws \in socketsByUserId'[userId] /\ ws \notin closedSockets') =>
            \E i \in DOMAIN sent' :
                /\ sent'[i].ev = "friends:list"
                /\ sent'[i].ws = ws
                /\ \E j \in DOMAIN sent'[i].data :
                      /\ sent'[i].data[j].userId = other
                      /\ sent'[i].data[j].online

\* The online values this step sent are those of the registries it left.
OnlineAsReported ==
    \A i \in DOMAIN sent' :
        /\ sent'[i].ev = "presence:update" =>
               sent'[i].data = OnlineAfter(sent'[i].who)
        /\ sent'[i].ev = "friends:list" =>
               \A j \in DOMAIN sent'[i].data :
                   sent'[i].data[j].online = OnlineAfter(sent'[i].data[j].userId)

\* A user that comes online or goes offline is announced to its friends.
PresenceAnnounced ==
    \A userId \in DOMAIN users' :
        OnlineBefore(userId) /= OnlineAfter(userId) =>
            \A friendId \in Elems(users'[userId].friends) :
                PresenceSent(friendId, userId, OnlineAfter(userId))

\* Two connected users that became friends see each other online.
NewFriendsOnline ==
    \A a \in DOMAIN users, b \in DOMAIN users :
        (/\ a /= b
         /\ ~Includes(users[a].friends, b)
         /\ Includes(users'[a].friends, b)
         /\ OnlineAfter(a)
         /\ OnlineAfter(b)) => FriendOnlineSent(a, b)

PresenceStep == OnlineAsReported /\ PresenceAnnounced /\ NewFriendsOnline

\* Every socket is in the connection set of the user it is bound to, only.
BoundOnce(su, socks) ==
    \A ws \in Conns :
        {u \in DOMAIN socks : ws \in socks[u]} = IF su[ws] = None THEN {} ELSE {su[ws]}

\* While every socket is bound to one user, presence is as C27 says.
PresenceWhileBoundOnce ==
    [][(BoundOnce(socketUser, socketsByUserId)
            /\ BoundOnce(socketUser', socketsByUserId')) => PresenceStep]_vars

\* C27: friends:list and presence:update report a user online exactly when an
\* open connection is bound to the user; a user whose first connection
\* authenticates or whose last connection closes is announced to every
\* connected friend with the new value; two connected users that become
\* friends both get a friends:list with the other online.
C27_PresenceAsStated == [][PresenceStep]_vars

\* ------------------------------------------------------------------------
\* Send-ahead of the NES lockstep engine
\* ------------------------------------------------------------------------

\* The netplay:input messages peer p sent in this step, in order.
NewSends(p) ==
    IF Len(net'[p]) > Len(net[p])
    THEN SubSeq(net'[p], Len(net[p]) + 1, Len(net'[p]))
    ELSE <<>>

\* C28: a run of the NES lockstep engine records and sends its frames 0, 1,
\* 2, ... once each, in order and without gaps; a tick that begins with the
\* simulation point at c has sent every frame up to c + 3 before it steps,
\* so a frame is sent before it is simulated; the bitmask recorded for a
\* frame stays as it was sent.
C28_SendAhead ==
    [][\A p \in Elems(NesPeers) :
          LET e    == nes[p]
              e2   == nes'[p]
              from == IF e.mounted THEN e.plannedLocalFrame ELSE 0
              new  == NewSends(p)
          IN  /\ e2.mounted =>
                    /\ Len(new) = e2.plannedLocalFrame - from
                    /\ \A i \in 1..Len(new) :
                          /\ new[i].frame = from + i - 1
                          /\ new[i].state = e2.localStateByFrame[new[i].frame]
                    /\ DOMAIN e2.localStateByFrame = 0..(e2.plannedLocalFrame - 1)
                    /\ e2.currentFrame <= e2.plannedLocalFrame
              /\ (e.mounted /\ e2.mounted) =>
                    /\ \A f \in DOMAIN e.localStateByFrame :
                          e2.localStateByFrame[f] = e.localStateByFrame[f]
                    /\ e2.currentFrame > e.currentFrame =>
                          e2.plannedLocalFrame > e.currentFrame + LOCKSTEP_INPUT_DELAY_FRAMES
                    /\ NesTick(p) =>
                          e2.plannedLocalFrame > e.currentFrame + LOCKSTEP_INPUT_DELAY_FRAMES]_vars

\* The host held A while frame 3 was recorded and let go of it before a later
\* frame was: both values stay in the buffer.
C28_HeldThenReleased ==
    LET e == nes[NesPeers[1]] IN
    /\ e.mounted
    /\ \E f \in DOMAIN e.localStateByFrame, g \in DOMAIN e.localStateByFrame :
          /\ LOCKSTEP_INPUT_DELAY_FRAMES <= f
          /\ f < g
          /\ e.localStateByFrame[f] = INPUT_BIT_A
          /\ e.localStateByFrame[g] = 0

\* ------------------------------------------------------------------------
\* Controller ports
\* ------------------------------------------------------------------------

\* The App of userId shows the lockstep session of room roomId.
InSession(sessions, rms, userId, roomId) ==
    /\ sessions[userId] /= NoNetplay
    /\ sessions[userId].roomId = roomId
    /\ roomId \in DOMAIN rms
    /\ IsMember(rms[roomId], userId)
    /\ rms[roomId].session.mode = "lockstep"

\* Two peers of one session hold different ports.
PortsDistinct(sessions, rms) ==
    \A roomId \in DOMAIN rms, a \in Users, b \in Users :
        (a /= b /\ InSession(sessions, rms, a, roomId)
                /\ InSession(sessions, rms, b, roomId))
            => sessions[a].localPlayer /= sessions[b].localPlayer

\* C30: in a lockstep session the host's bitmasks go to port 1 and the
\* guest's to port 2 at every peer: the two peers never hold the same port,
\* and a peer keeps its port while the session lasts, whether the room's host
\* changes or the peer leaves, joins again and gets netplay:start again.
C30_PortsFixed ==
    [][/\ PortsDistinct(activeSession', rooms')
       /\ \A roomId \in DOMAIN rooms, userId \in Users :
             (/\ InSession(activeSession, rooms, userId, roomId)
              /\ InSession(activeSession', rooms', userId, roomId)
              /\ rooms'[roomId].session = rooms[roomId].session)
                 => activeSession'[userId].localPlayer
                        = activeSession[userId].localPlayer]_vars

\* ------------------------------------------------------------------------
\* Pruning of the frame buffers
\* ------------------------------------------------------------------------

\* The frames a buffer holds.
Buffered(e) == DOMAIN e.localStateByFrame \cup DOMAIN e.remoteStateByFrame

\* A tick that ends at a multiple of 120 leaves no frame below
\* currentFrame - 180, and no tick removes the current frame or a later one.
PruneKeepsRecent ==
    [][\A p \in Elems(NesPeers) :
          (nes[p].mounted /\ nes'[p].mounted) =>
              /\ nes'[p].currentFrame % PRUNE_EVERY = 0 =>
                    \A f \in Buffered(nes'[p]) : f >= nes'[p].currentFrame - PRUNE_KEEP
              /\ \A f \in DOMAIN nes[p].localStateByFrame :
                    f >= nes'[p].currentFrame => f \in DOMAIN nes'[p].localStateByFrame
              /\ \A f \in DOMAIN nes[p].remoteStateByFrame :
                    f >= nes'[p].currentFrame => f \in DOMAIN nes'[p].remoteStateByFrame]_vars

\* C31: the buffers of a lockstep engine stay bounded: a tick that takes the
\* simulation point to or past a multiple of 120, by one step or by two,
\* prunes, so that no frame more than 180 below that multiple stays
\* buffered; the current frame and later ones are never removed.
C31_PrunedEvery120 ==
    [][\A p \in Elems(NesPeers) :
          (nes[p].mounted /\ nes'[p].mounted) =>
              \A m \in 1..(PruneFrames \div PRUNE_EVERY) :
                  (nes[p].currentFrame < m * PRUNE_EVERY
                   /\ nes'[p].currentFrame >= m * PRUNE_EVERY) =>
                      \A f \in Buffered(nes'[p]) : f >= m * PRUNE_EVERY - PRUNE_KEEP]_vars

\* ------------------------------------------------------------------------
\* The authentication gate
\* ------------------------------------------------------------------------

\* The step changed no registry and sent no event.
NothingDone == sent' = <<>> /\ UNCHANGED registries

\* C32: a request on a socket that is bound to no user either is an auth that
\* binds it, or fails - with "Not authenticated" unless it is an auth -
\* changes no registry and sends no event; an auth whose userId, displayName
\* or friendCode is empty fails, binds nothing and touches no user record.
C32_Gate ==
    [][\A ws \in Clients :
          /\ (response'.ws = ws /\ response'.requestId /= None
                  /\ socketUser[ws] = None) =>
                \/ response'.ok /\ socketUser'[ws] /= None
                \/ /\ ~response'.ok
                   /\ response'.error \in {"Not authenticated", "Invalid auth payload"}
                   /\ NothingDone
          /\ NotAuthenticated(ws) => response'.error = "Not authenticated"
          /\ \A userId \in AuthUserIds(ws), displayName \in DisplayNames,
                friendCode \in AuthFriendCodes(ws) :
                 (/\ Trim(userId) = "" \/ Trim(displayName) = "" \/ Trim(friendCode) = ""
                  /\ AuthRequest(ws, userId, displayName, friendCode)) =>
                     /\ ~response'.ok
                     /\ response'.error = "Invalid auth payload"
                     /\ NothingDone]_vars

\* An auth without a displayName failed on a socket that stays unbound while
\* the other client is in.
C32_NamelessRefused ==
    /\ response.error = "Invalid auth payload"
    /\ socketUser[response.ws] = None
    /\ \E ws \in Clients : socketUser[ws] /= None

\* ------------------------------------------------------------------------
\* Progress of a session
\* ------------------------------------------------------------------------

\* Peer p waits for the bitmask of its current frame, which peer q has sent
\* and which is no longer under way: no tick and no message will bring it.
WaitsForLost(p, q) ==
    /\ nes[p].mounted
    /\ nes[q].mounted
    /\ nes[p].currentFrame \notin DOMAIN nes[p].remoteStateByFrame
    /\ nes[p].currentFrame < nes[q].plannedLocalFrame
    /\ \A i \in 1..Len(net[q]) : net[q][i].frame /= nes[p].currentFrame

\* C33: with both peers connected and their loops running, no peer is left
\* waiting for ever at a frame, whatever the order in which the two GameView
\* effects run, send their first inputs and register their listeners: no
\* peer waits for an input that was sent and will not arrive.
C33_NoPermanentStall ==
    \A p \in Elems(NesPeers), q \in Elems(NesPeers) : p /= q => ~WaitsForLost(p, q)


\* ------------------------------------------------------------------------
\* The close event of a socket the client has replaced
\* ------------------------------------------------------------------------

\* Sockets this.ws no longer refers to whose close event is still to come.
\* The handler connect() registers for the close event does not look at the
\* socket it was registered on, so ClientOnClose is the step of each of them
\* as well as of the current socket.
ReplacedSockets == client.sockets - (IF client.ws = "open" THEN 1 ELSE 0)

\* C34: the close event of a socket that has been replaced rejects no
\* request pending on the newer socket and leaves the reference to the
\* newer socket in place.
C34_ReplacedCloseHarmless ==
    [][(ReplacedSockets > 0 /\ client.ws = "open" /\ ClientOnClose) =>
          /\ client'.ws = client.ws
          /\ client'.pending = client.pending
          /\ client'.calls = client.calls]_vars

\* ------------------------------------------------------------------------
\* The remote frame buffer
\* ------------------------------------------------------------------------

\* The remote buffer of p's running effect keeps the bitmask of every frame
\* it holds.
RemoteWrittenOnce(p) ==
    (nes[p].mounted /\ nes'[p].mounted /\ nes'[p].mounts = nes[p].mounts) =>
        \A f \in DOMAIN nes[p].remoteStateByFrame \cap DOMAIN nes'[p].remoteStateByFrame :
            nes'[p].remoteStateByFrame[f] = nes[p].remoteStateByFrame[f]

\* The remote buffer of p agrees with the local buffer of its peer q on the
\* frames both hold.
RemoteAsRecorded(p, q) ==
    (nes[p].mounted /\ nes[q].mounted) =>
        \A f \in DOMAIN nes[p].remoteStateByFrame \cap DOMAIN nes[q].localStateByFrame :
            nes[p].remoteStateByFrame[f] = nes[q].localStateByFrame[f]

\* C35: the bitmask the remote buffer holds for a frame is never replaced by
\* another value, and it is the bitmask the sending peer recorded for that
\* frame.
C35_RemoteBufferStable ==
    /\ [][\A p \in Elems(NesPeers) : RemoteWrittenOnce(p)]_vars
    /\ [](RemoteAsRecorded(NesPeers[1], NesPeers[2])
            /\ RemoteAsRecorded(NesPeers[2], NesPeers[1]))

\* ------------------------------------------------------------------------
\* The players of a streaming room
\* ------------------------------------------------------------------------

\* C36: a room whose session is a stream has at most two members that are
\* not spectators.
C36_StreamPlayersAtMostTwo ==
    \A r \in DOMAIN rooms :
        rooms[r].session.mode = "stream"
            => Cardinality(MemberSet(rooms[r]) \ rooms[r].spectators) <= 2

\* ------------------------------------------------------------------------
\* Members and their connections
\* ------------------------------------------------------------------------

\* An open connection is bound to userId: it is bound to it in socketUser,
\* or it is in the user's connection set.
HasOpenConnection(userId) ==
    \E ws \in Conns :
        /\ ws \notin closedSockets
        /\ (socketUser[ws] = userId \/ ws \in socketsByUserId[userId])

\* C37: every member and every host of every room has an open connection
\* bound to their user id.
C37_MembersConnected ==
    \A r \in DOMAIN rooms :
        \A userId \in MemberSet(rooms[r]) \cup {rooms[r].hostUserId} :
            HasOpenConnection(userId)

\* ------------------------------------------------------------------------
\* Refused requests
\* ------------------------------------------------------------------------

\* The step answered a request with ok: false.
AnsweredNotOk == response'.ws /= None /\ ~response'.ok

\* The step is an invite:respond of the addressee that accepts inviteId.
AcceptOf(inviteId) ==
    /\ inviteId \in DOMAIN invites
    /\ invites[inviteId].toUserId = socketUser[response'.ws]
    /\ InviteRespond(response'.ws, inviteId, TRUE)

\* C38: a request that is answered ok: false changes no user, no binding and
\* no room and sends no event; the invite registry changes only by the
\* deletion of the invite a refused accept of its addressee was about.
C38_RefusalChangesNothing ==
    [][AnsweredNotOk =>
          /\ UNCHANGED <<users, socketUser, socketsByUserId, closedSockets, rooms,
                         roomsCreated, invitesCreated>>
          /\ sent' = <<>>
          /\ \/ invites' = invites
             \/ \E inviteId \in InviteIds :
                   AcceptOf(inviteId) /\ invites' = Drop(invites, inviteId)]_vars

\* The addressee accepted an invite and was refused; the invite is gone.
C38_RefusedAccept ==
    /\ response.ws /= None
    /\ ~response.ok
    /\ response.error \in {"Room no longer exists", "Streaming room is full",
                           "Room is locked"}
    /\ invitesCreated > 0
    /\ DOMAIN invites = {}

\* ------------------------------------------------------------------------
\* The rooms of a user
\* ------------------------------------------------------------------------

\* The rooms userId is a member of.
RoomsOfUser(userId) == {r \in DOMAIN rooms : IsMember(rooms[r], userId)}

\* C39: a user is a member of at most one room.
C39_OneRoomPerUser ==
    \A userId \in Users : Cardinality(RoomsOfUser(userId)) <= 1

====
